---- MODULE Spec2Model ----
(***************************************************************************)
(* Function contracts of Kani: the requires/ensures expansion state        *)
(* machine, the old-value lifter, the postcondition injector and the       *)
(* recursion wrapper, modelled from                                        *)
(*   library/kani_macros/src/sysroot/contracts.rs                          *)
(* Each part has a specification of its own (SpecExpand, SpecInject,       *)
(* SpecLift, SpecWrapper); the variables of the other parts stay idle.     *)
(***************************************************************************)
EXTENDS Integers, Sequences, FiniteSets, TLC

\* ------------------------------------------------------------------ bounds
\* Longest stack of requires/ensures annotations on one function.
MaxAnnotations == 3
\* Largest original body (nodes of its syntax tree) given to the expansion.
MaxExpandBody == 1
\* Largest body (nodes) given to the postcondition injector on its own.
MaxInjectBody == 5
\* Largest postcondition (nodes) given to the old-value lifter on its own.
MaxLiftExpr == 5
\* Calls the harness makes to the contracted function in one run.
MaxHarnessCalls == 2
\* Calls one execution of the original body makes to its own function.
MaxSelfCalls == 2
\* Deepest call stack a self call is made from (the code never nests more than
\* wrapper, check, wrapper, replace, dummy).
MaxStack == 8
\* Most entries of one assigns or frees clause.
MaxEntries == 2
\* Most reachable items handed to the contract codegen of one harness.
MaxItems == 3
\* The locals a modifies contract names.
MaxLocals == 2
\* The attributes an item carries.
MaxAttrs == 2

VARIABLES
    items,      \* SpecExpand: the function items of the crate, in output order
    last,       \* SpecExpand: what the latest macro expansion saw and emitted
    inj,        \* SpecInject: the injector's input body and its output
    lift,       \* SpecLift: the lifter's input postcondition and its output
    REENTRY,    \* SpecWrapper: the wrapper's `static mut REENTRY: bool`
    stack,      \* SpecWrapper: the call stack, innermost frame last
    unwinding,  \* SpecWrapper: a panic is propagating up the stack
    calls,      \* SpecWrapper: calls the harness has made so far
    hist,       \* SpecWrapper: what the latest step did
    parse,      \* SpecPlace: the place parser's clause, cursor and results
    gcx,        \* SpecContract, SpecAttach: the codegen context
    sess,       \* SpecAttrs: an item's attributes, their map and the session's diagnostics
    driver      \* SpecInstrument: the goto-instrument passes run on a model file

vars == <<items, last, inj, lift, REENTRY, stack, unwinding, calls, hist, parse, gcx, sess, driver>>
expandVars == <<items, last>>
injectVars == <<inj>>
liftVars == <<lift>>
wrapperVars == <<REENTRY, stack, unwinding, calls, hist>>
placeVars == <<parse>>
contractVars == <<gcx>>
attrsVars == <<sess>>
driverVars == <<driver>>

\* Option<T> is a sequence of length 0 (None) or 1 (Some).
None == <<>>
Some(x) == <<x>>

\* ------------------------------------------------------- syntax: identifiers
\* Identifiers are tuples, so that generated ones never compare with strings.
Ident(s) == <<s>>
ResultIdent == <<"result">>
\* The parameters of the contracted function `fn f(p, q)`, in declared order.
Params == <<Ident("p"), Ident("q")>>

\* ------------------------------------------------ syntax: function bodies
Lit(v) == [k |-> "lit", v |-> v]
Mut == [k |-> "mut"]                         \* `*p += 1`
Ret0 == [k |-> "ret", e |-> None]            \* `return`
Ret(e) == [k |-> "ret", e |-> Some(e)]       \* `return e`
Try(e) == [k |-> "try", e |-> e]             \* `e?`
Closure(e) == [k |-> "closure", e |-> e]     \* `|| e`
FnItem(e) == [k |-> "fnitem", e |-> e]       \* `fn g() { e }` nested in a body
If(t, f) == [k |-> "if", t |-> t, f |-> f]   \* `if .. { t } else { f }`
Block(s) == [k |-> "block", s |-> s]         \* `{ s1; s2; ... }`
Let(v, e) == [k |-> "let", v |-> v, e |-> e] \* `let v = e;`
PathExpr(v) == [k |-> "path", v |-> v]
Call(f, args) == [k |-> "call", f |-> f, args |-> args]
Unreachable == [k |-> "unreachable"]

\* Every body of exactly n nodes over the given leaves.
RECURSIVE BodiesOfSize(_, _)
BodiesOfSize(n, leaves) ==
    IF n = 1 THEN leaves
    ELSE LET un == BodiesOfSize(n - 1, leaves) IN
         {Ret(e) : e \in un} \cup {Try(e) : e \in un}
         \cup {Closure(e) : e \in un} \cup {FnItem(e) : e \in un}
         \cup UNION {{If(t, f) : t \in BodiesOfSize(i, leaves),
                                 f \in BodiesOfSize(n - 1 - i, leaves)} : i \in 1..(n - 2)}

BodiesUpTo(n, leaves) == UNION {BodiesOfSize(i, leaves) : i \in 1..n}

\* ------------------------------------------ syntax: contract clause expressions
Var(v) == [k |-> "var", v |-> v]             \* a one-segment path
Old(a) == [k |-> "old", a |-> a]             \* the call `old(a)`
Bin(l, r) == [k |-> "bin", l |-> l, r |-> r] \* `l op r`

\* ---------------------------------------------------------- old-value lifter
\* An identifier generator that does not use the index.
generate_identifier_for_ignoring_index(index) == <<"old_", 0>>

\* OldLifter::generate_identifier_for: `old_<index>`.
generate_identifier_for(index) == <<"old_", index>>

\* OldVisitor<OldDenier>::visit_expr_mut with OldDenier::trigger: an `old` call
\* emits the nesting error at its own span and is neither replaced nor entered;
\* any other expression is traversed.  Yields the spans reported, a span being
\* the position (child indices from the root of the clause) of the expression.
RECURSIVE DenierVisit(_, _)
DenierVisit(ex, pos) ==
    CASE ex.k = "old" -> <<pos>>
      [] ex.k = "bin" -> DenierVisit(ex.l, pos \o <<1>>) \o DenierVisit(ex.r, pos \o <<2>>)
      [] OTHER -> <<>>

\* A trigger that lifts the argument without looking into it.
OldLifterTrigger_without_denier(e, pos, table, diags) ==
    [e     |-> Var(generate_identifier_for(Len(table))),
     table |-> Append(table, e),
     diags |-> diags]

\* OldLifter::trigger on the argument `e` of an `old` call at `pos`: run the
\* denier over the argument, push the argument to the table and leave the fresh
\* identifier in its place (the index is the table's length before the push).
OldLifterTrigger(e, pos, table, diags) ==
    [e     |-> Var(generate_identifier_for(Len(table))),
     table |-> Append(table, e),
     diags |-> diags \o DenierVisit(e, pos \o <<1>>)]

\* OldVisitor<OldLifter>::visit_expr_mut: left to right, the table threaded.
RECURSIVE LifterVisit(_, _, _, _)
LifterVisit(ex, pos, table, diags) ==
    CASE ex.k = "old" -> OldLifterTrigger(ex.a, pos, table, diags)
      [] ex.k = "bin" ->
            LET L == LifterVisit(ex.l, pos \o <<1>>, table, diags)
                R == LifterVisit(ex.r, pos \o <<2>>, L.table, L.diags)
            IN [e |-> Bin(L.e, R.e), table |-> R.table, diags |-> R.diags]
      [] OTHER -> [e |-> ex, table |-> table, diags |-> diags]

\* OldLifter::into_iter_exprs_and_idents: the i-th entry gets `old_<i>`.
into_iter_exprs_and_idents(table) ==
    [i \in 1..Len(table) |-> <<generate_identifier_for(i - 1), table[i]>>]

\* rename_argument_occurrences: `<id>_renamed` for every argument identifier.
mk_new_ident_for(id) == <<id[1], "renamed">>

IsArg(inputs, v) == \E i \in 1..Len(inputs) : inputs[i] = v

\* Renamer::visit_expr_path_mut over a clause: every one-segment path naming an
\* argument is renamed; the default traversal enters a remaining `old` call.
RECURSIVE Renamer(_, _)
Renamer(inputs, ex) ==
    CASE ex.k = "var" -> IF Len(ex.v) = 1 /\ IsArg(inputs, ex.v)
                         THEN Var(mk_new_ident_for(ex.v)) ELSE ex
      [] ex.k = "bin" -> Bin(Renamer(inputs, ex.l), Renamer(inputs, ex.r))
      [] ex.k = "old" -> Old(Renamer(inputs, ex.a))
      [] OTHER -> ex

\* ContractConditionsType::new_ensures: lift, then rename.  arg_idents is a
\* HashMap in the source; its (arbitrary but fixed) iteration order is taken to
\* be the declared order of the parameters.
new_ensures(inputs, attr) ==
    LET L == LifterVisit(attr, <<>>, <<>>, <<>>)
        P == into_iter_exprs_and_idents(L.table)
    IN [old_vars   |-> [i \in 1..Len(P) |-> P[i][1]],
        old_exprs  |-> [i \in 1..Len(P) |-> P[i][2]],
        arg_idents |-> inputs,
        attr       |-> Renamer(inputs, L.e),
        diags      |-> L.diags]

\* ------------------------------------------------------ postcondition injector
\* PostconditionInjector::visit_expr_mut with the tokens `tokens`.  A return is
\* rewritten after its operand; a closure is not entered; everything else is
\* traversed by syn's default visitor, which enters blocks, branches, local
\* initialisers and the items nested in a block.
RECURSIVE PostconditionInjector(_, _)
PostconditionInjector(tokens, i) ==
    CASE i.k = "ret" ->
            IF i.e # None
            THEN Block(<<Let(ResultIdent, PostconditionInjector(tokens, i.e[1]))>>
                       \o tokens \o <<Ret(PathExpr(ResultIdent))>>)
            ELSE Block(tokens \o <<Ret0>>)
      [] i.k = "closure" -> i
      [] i.k = "fnitem" -> FnItem(PostconditionInjector(tokens, i.e))
      [] i.k = "try" -> Try(PostconditionInjector(tokens, i.e))
      [] i.k = "if" -> If(PostconditionInjector(tokens, i.t), PostconditionInjector(tokens, i.f))
      [] i.k = "block" -> Block([j \in 1..Len(i.s) |-> PostconditionInjector(tokens, i.s[j])])
      [] i.k = "let" -> Let(i.v, PostconditionInjector(tokens, i.e))
      [] OTHER -> i

\* --------------------------------------------------- check and replace bodies
\* Generated statements.  `c` records the annotation a statement was generated
\* from, [id, kind] (the source keeps the clause's tokens; `c` stands for them).
KaniAssume(attr, c) == [k |-> "assume", attr |-> attr, c |-> c]
KaniAssert(attr, msg, c) == [k |-> "assert", attr |-> attr, msg |-> msg, c |-> c]
LetOld(v, e, c) == [k |-> "letold", v |-> v, e |-> e, c |-> c]
UntrackedDeref(v, of, c) == [k |-> "untracked", v |-> v, of |-> of, c |-> c]
Forget(v, c) == [k |-> "forget", v |-> v, c |-> c]

\* ContractConditionsHandler::new
ContractConditionsHandler(is_requires, attr, inputs, fn_body, c) ==
    IF is_requires
    THEN [condition_type |-> "Requires", attr |-> attr, body |-> fn_body,
          attr_copy |-> attr, c |-> c,
          old_vars |-> <<>>, old_exprs |-> <<>>, arg_idents |-> <<>>, diags |-> <<>>]
    ELSE LET E == new_ensures(inputs, attr) IN
         [condition_type |-> "Ensures", attr |-> E.attr, body |-> fn_body,
          attr_copy |-> attr, c |-> c,
          old_vars |-> E.old_vars, old_exprs |-> E.old_exprs,
          arg_idents |-> E.arg_idents, diags |-> E.diags]

\* `#(let #old_vars = #old_exprs;)*`
OldLets(h) == [i \in 1..Len(h.old_vars) |-> LetOld(h.old_vars[i], h.old_exprs[i], h.c)]
\* `#(let #arg_names = kani::untracked_deref(&#arg_idents);)*`
ArgCopies(h) ==
    [i \in 1..Len(h.arg_idents) |->
        UntrackedDeref(mk_new_ident_for(h.arg_idents[i]), h.arg_idents[i], h.c)]
\* `kani::assert(#attr, stringify!(#attr_copy)); #(std::mem::forget(#arg_names_2);)*`
exec_postconditions(h) ==
    <<KaniAssert(h.attr, h.attr_copy, h.c)>>
    \o [i \in 1..Len(h.arg_idents) |-> Forget(mk_new_ident_for(h.arg_idents[i]), h.c)]

\* A check body that takes the old values after the guarded body has run.
make_check_body_old_after_call(h) ==
    IF h.condition_type = "Requires"
    THEN <<KaniAssume(h.attr, h.c), h.body>>
    ELSE ArgCopies(h)
         \o <<Let(ResultIdent, PostconditionInjector(exec_postconditions(h), h.body))>>
         \o OldLets(h)
         \o exec_postconditions(h)
         \o <<PathExpr(ResultIdent)>>

\* A check body whose returns are left as written.
make_check_body_returns_as_written(h) ==
    IF h.condition_type = "Requires"
    THEN <<KaniAssume(h.attr, h.c), h.body>>
    ELSE OldLets(h) \o ArgCopies(h)
         \o <<Let(ResultIdent, h.body)>>
         \o exec_postconditions(h)
         \o <<PathExpr(ResultIdent)>>

\* ContractConditionsHandler::make_check_body: the statements of the new body.
make_check_body(h) ==
    IF h.condition_type = "Requires"
    THEN <<KaniAssume(h.attr, h.c), h.body>>
    ELSE OldLets(h) \o ArgCopies(h)
         \o <<Let(ResultIdent, PostconditionInjector(exec_postconditions(h), h.body))>>
         \o exec_postconditions(h)
         \o <<PathExpr(ResultIdent)>>

\* Argument expressions in the reverse of the declared order.
exprs_for_args_reversed(inputs) ==
    [i \in 1..Len(inputs) |-> PathExpr(inputs[Len(inputs) + 1 - i])]

\* exprs_for_args: one expression per parameter, in declared order.
exprs_for_args(inputs) == [i \in 1..Len(inputs) |-> PathExpr(inputs[i])]

\* A replace body that guards like a check body: assumes the precondition and
\* asserts the postcondition.
make_replace_body_guarding_as_check(h, inputs, use_dummy_fn_call) ==
    LET call_to_prior == IF use_dummy_fn_call # None
                         THEN Call(use_dummy_fn_call[1], exprs_for_args(inputs))
                         ELSE h.body
    IN IF h.condition_type = "Requires"
       THEN <<KaniAssume(h.attr, h.c), call_to_prior>>
       ELSE OldLets(h) \o ArgCopies(h)
            \o <<Let(ResultIdent, call_to_prior), KaniAssert(h.attr, h.attr_copy, h.c),
                 PathExpr(ResultIdent)>>

\* A replace body that wraps the body it is given even on the first expansion.
make_replace_body_wrapping_body(h, inputs, use_dummy_fn_call) ==
    IF h.condition_type = "Requires"
    THEN <<KaniAssert(h.attr, h.attr_copy, h.c), h.body>>
    ELSE OldLets(h) \o ArgCopies(h)
         \o <<Let(ResultIdent, h.body), KaniAssume(h.attr, h.c), PathExpr(ResultIdent)>>

\* ContractConditionsHandler::make_replace_body
make_replace_body(h, inputs, use_dummy_fn_call) ==
    LET call_to_prior == IF use_dummy_fn_call # None
                         THEN Call(use_dummy_fn_call[1], exprs_for_args(inputs))
                         ELSE h.body
    IN IF h.condition_type = "Requires"
       THEN <<KaniAssert(h.attr, h.attr_copy, h.c), call_to_prior>>
       ELSE OldLets(h) \o ArgCopies(h)
            \o <<Let(ResultIdent, call_to_prior), KaniAssume(h.attr, h.c), PathExpr(ResultIdent)>>

\* ------------------------------------------------------------ attributes
\* `#[kani::requires(attr)]` / `#[kani::ensures(attr)]`, the id-th annotation of
\* the stack as written.
Requires(id, attr) == [k |-> "requires", id |-> id, attr |-> attr]
Ensures(id, attr) == [k |-> "ensures", id |-> id, attr |-> attr]
IsContractAnnotation(a) == a.k \in {"requires", "ensures"}
AllowDeadCode == [k |-> "allow", v |-> "dead_code, unused_variables"]
IsContractGenerated(tag) == [k |-> "is_contract_generated", v |-> tag]
CheckedWith(name) == [k |-> "checked_with", v |-> name]
ReplacedWith(name) == [k |-> "replaced_with", v |-> name]
MemoryHavocDummy(name) == [k |-> "memory_havoc_dummy", v |-> name]

\* A function item: identifier, attributes (outermost first), parameters, body.
ItemFn(ident, attrs, inputs, body) ==
    [ident |-> ident, attrs |-> attrs, inputs |-> inputs, body |-> body]

\* ------------------------------------------------------------ generated names
RECURSIVE ClauseTokens(_)
ClauseTokens(ex) ==
    CASE ex.k = "var" -> <<ex.v[1]>>
      [] ex.k = "old" -> <<"old", "(">> \o ClauseTokens(ex.a)
      [] ex.k = "bin" -> ClauseTokens(ex.l) \o <<"==">> \o ClauseTokens(ex.r)
      [] OTHER -> <<>>

RECURSIVE BodyTokens(_)
RECURSIVE BlockTokens(_)
BodyTokens(e) ==
    CASE e.k = "lit" -> <<e.v>>
      [] e.k = "mut" -> <<"*", "p", "+", "=", "1">>
      [] e.k = "ret" -> <<"return">> \o (IF e.e = None THEN <<>> ELSE BodyTokens(e.e[1]))
      [] e.k = "try" -> BodyTokens(e.e) \o <<"?">>
      [] e.k = "closure" -> <<"|", "|">> \o BodyTokens(e.e)
      [] e.k = "fnitem" -> <<"fn", "g", "(", "{">> \o BodyTokens(e.e)
      [] e.k = "if" -> <<"if", "c", "{">> \o BodyTokens(e.t) \o <<"else", "{">> \o BodyTokens(e.f)
      [] e.k = "block" -> <<"{">> \o BlockTokens(e.s)
      [] OTHER -> <<>>
BlockTokens(s) == IF s = <<>> THEN <<>> ELSE BodyTokens(Head(s)) \o BlockTokens(Tail(s))

RECURSIVE AttrsTokens(_)
AttrsTokens(attrs) ==
    IF attrs = <<>> THEN <<>>
    ELSE LET a == Head(attrs) IN
         (IF IsContractAnnotation(a)
          THEN <<"#", "[", "kani", ":", ":", a.k, "(">> \o ClauseTokens(a.attr)
          ELSE <<"#", "[", a.k>>)
         \o AttrsTokens(Tail(attrs))

RECURSIVE InputTokens(_)
InputTokens(inputs) ==
    IF inputs = <<>> THEN <<>> ELSE <<Head(inputs)[1], ":", "u32", ",">> \o InputTokens(Tail(inputs))

\* The token stream of an item as the macro receives it.
ItemTokens(item) ==
    AttrsTokens(item.attrs) \o <<"fn", item.ident[1], "(">> \o InputTokens(item.inputs)
    \o BodyTokens(item.body)

\* What one token contributes to the hasher (by its text).
TokenTexts ==
    <<"#", "[", "kani", ":", "requires", "ensures", "(", "old", "==", "p", "q", "result",
      "fn", "f", "g", "u32", ",", "{", "a", "b", "*", "+", "=", "1", "return", "|", "if",
      "c", "else", "?", "allow", "is_contract_generated", "checked_with", "replaced_with",
      "memory_havoc_dummy">>
TokenCode(t) ==
    IF \E i \in 1..Len(TokenTexts) : TokenTexts[i] = t
    THEN CHOOSE i \in 1..Len(TokenTexts) : TokenTexts[i] = t
    ELSE 0

HashModulus == 16777216     \* 0x1_000_000: six hex digits

\* hash_of_token_stream: every token of the stream goes into the hasher, in
\* order.  The std DefaultHasher is stood for by the polynomial hash
\* hasher * 31^n + t1 * 31^(n-1) + ... + tn, kept within six hex digits.
RECURSIVE HashWeight(_)
HashWeight(k) == IF k = 0 THEN 1 ELSE (HashWeight(k - 1) * 31) % HashModulus
RECURSIVE HashSum(_, _, _)
HashSum(stream, lo, hi) ==
    IF lo > hi THEN 0
    ELSE IF lo = hi THEN (TokenCode(stream[lo]) * HashWeight(Len(stream) - lo)) % HashModulus
    ELSE (HashSum(stream, lo, (lo + hi) \div 2)
          + HashSum(stream, (lo + hi) \div 2 + 1, hi)) % HashModulus
hash_of_token_stream(hasher, stream) ==
    (((hasher * HashWeight(Len(stream))) % HashModulus) + HashSum(stream, 1, Len(stream)))
        % HashModulus

\* short_hash_of_token_stream
short_hash_of_token_stream(item) == hash_of_token_stream(7, ItemTokens(item)) % HashModulus

\* A name formatted without the purpose tag: `<ident>_<hash:x>`.
identifier_for_generated_function_without_purpose(related_function, purpose, hash) ==
    <<related_function.ident[1], "", hash>>

\* identifier_for_generated_function: `<ident>_<purpose>_<hash:x>`.
identifier_for_generated_function(related_function, purpose, hash) ==
    <<related_function.ident[1], purpose, hash>>

\* --------------------------------------------------- contract function state
\* A reader of the state that does not know the original's marker.
from_attribute_ignoring_checked_with(attribute) ==
    IF attribute.k = "is_contract_generated"
    THEN CASE attribute.v = "check" -> Some("Check")
           [] attribute.v = "replace" -> Some("Replace")
           [] attribute.v = "replace_dummy" -> Some("ReplaceDummy")
           [] OTHER -> None
    ELSE None

\* ContractFunctionState::from_attribute
from_attribute(attribute) ==
    IF attribute.k = "is_contract_generated"
    THEN CASE attribute.v = "check" -> Some("Check")
           [] attribute.v = "replace" -> Some("Replace")
           [] attribute.v = "replace_dummy" -> Some("ReplaceDummy")
           [] OTHER -> None
    ELSE IF attribute.k = "checked_with" THEN Some("Original")
    ELSE None

\* `item_fn.attrs.iter().find_map(from_attribute).unwrap_or(Untouched)`
RECURSIVE find_map_state(_)
find_map_state(attrs) ==
    IF attrs = <<>> THEN "Untouched"
    ELSE IF from_attribute(Head(attrs)) # None THEN from_attribute(Head(attrs))[1]
    ELSE find_map_state(Tail(attrs))

function_state_of(item) == find_map_state(item.attrs)

\* Tagging on every expansion, whatever the state.
emit_tag_attr_always(state) == TRUE

\* ContractFunctionState::emit_tag_attr
emit_tag_attr(state) == state = "Untouched"

\* The recursion wrapper's body: the flag test and the two calls.
ReentryDispatch(call_replace, call_check, args, also_args) ==
    [k |-> "reentry", replace |-> Call(call_replace, args), check |-> Call(call_check, also_args)]

\* ContractFunctionState::prepare_header: the header items emitted and the names
\* to emit a replace and a check function under (None: short-circuit).
prepare_header(state, item_fn, a_short_hash) ==
    CASE state = "Untouched" ->
            LET check_fn_name == identifier_for_generated_function(item_fn, "check", a_short_hash)
                replace_fn_name == identifier_for_generated_function(item_fn, "replace", a_short_hash)
                dummy_fn_name == identifier_for_generated_function(item_fn, "replace_dummy", a_short_hash)
                recursion_wrapper_name ==
                    identifier_for_generated_function(item_fn, "recursion_wrapper", a_short_hash)
                args == exprs_for_args(item_fn.inputs)
            IN [output |->
                  <<ItemFn(dummy_fn_name, <<AllowDeadCode>>, item_fn.inputs, Block(<<Unreachable>>)),
                    ItemFn(recursion_wrapper_name,
                           <<AllowDeadCode, IsContractGenerated("recursion_wrapper")>>,
                           item_fn.inputs,
                           Block(<<ReentryDispatch(replace_fn_name, check_fn_name, args, args)>>)),
                    ItemFn(item_fn.ident,
                           item_fn.attrs \o <<CheckedWith(recursion_wrapper_name),
                                              ReplacedWith(replace_fn_name),
                                              MemoryHavocDummy(dummy_fn_name)>>,
                           item_fn.inputs, item_fn.body)>>,
                emit |-> Some([emit_replace |-> Some([name |-> replace_fn_name,
                                                      dummy |-> Some(dummy_fn_name)]),
                               emit_check |-> Some(check_fn_name)])]
      [] state \in {"Original", "ReplaceDummy"} -> [output |-> <<>>, emit |-> None]
      [] state = "Check" ->
            [output |-> <<>>,
             emit |-> Some([emit_replace |-> None, emit_check |-> Some(item_fn.ident)])]
      [] state = "Replace" ->
            [output |-> <<>>,
             emit |-> Some([emit_replace |-> Some([name |-> item_fn.ident, dummy |-> None]),
                            emit_check |-> None])]

\* requires_ensures_alt: the items one expansion of annotation `ann` on `item`
\* (the item as the macro receives it, without `ann`) puts in its place.
requires_ensures_alt(ann, item) ==
    LET a_short_hash == short_hash_of_token_stream(item)
        function_state == function_state_of(item)
        H == prepare_header(function_state, item, a_short_hash)
    IN IF H.emit = None THEN <<item>>
       ELSE
        LET emit_replace == H.emit[1].emit_replace
            emit_check == H.emit[1].emit_check
            handler == ContractConditionsHandler(ann.k = "requires", ann.attr, item.inputs,
                                                 item.body, [id |-> ann.id, kind |-> ann.k])
            emit_common_header ==
                (IF emit_tag_attr(function_state) THEN <<AllowDeadCode>> ELSE <<>>) \o item.attrs
            tag(t) == IF emit_tag_attr(function_state) THEN <<IsContractGenerated(t)>> ELSE <<>>
        IN H.output
           \o (IF emit_replace # None
               THEN <<ItemFn(emit_replace[1].name, emit_common_header \o tag("replace"),
                             item.inputs,
                             Block(make_replace_body(handler, item.inputs, emit_replace[1].dummy)))>>
               ELSE <<>>)
           \o (IF emit_check # None
               THEN <<ItemFn(emit_check[1], emit_common_header \o tag("check"), item.inputs,
                             Block(make_check_body(handler)))>>
               ELSE <<>>)

\* ------------------------------------------------- idle values of the parts
IdleItems == <<>>
IdleLast == [state |-> "None", ann |-> [k |-> "none"], input |-> <<>>, output |-> <<>>]
IdleInj == [phase |-> "idle"]
IdleLift == [phase |-> "idle"]
IdleParse == [status |-> "idle"]
IdleGcx == [phase |-> "idle"]
IdleSess == [phase |-> "idle"]
IdleDriver == [phase |-> "idle"]
ExpandIdle == items = IdleItems /\ last = IdleLast
InjectIdle == inj = IdleInj
LiftIdle == lift = IdleLift
PlaceIdle == parse = IdleParse
ContractIdle == gcx = IdleGcx
AttrsIdle == sess = IdleSess
DriverIdle == driver = IdleDriver
WrapperIdle ==
    /\ REENTRY = FALSE /\ stack = <<>> /\ unwinding = FALSE /\ calls = 0
    /\ hist = [op |-> "none", branch |-> "none", before |-> FALSE, val |-> "none",
               leaked |-> FALSE]

\* ------------------------------------------------------------- SpecExpand
\* The original function `f`, as written by the user.
OriginalIdent == <<"f", "", 0>>
RequiresAttr == Bin(Var(Ident("q")), Var(Ident("p")))                   \* `q != p`
EnsuresAttr == Bin(Old(Var(Ident("p"))), Bin(Var(ResultIdent), Var(Ident("p"))))
Annotation(i, kind) ==
    IF kind = "requires" THEN Requires(i, RequiresAttr) ELSE Ensures(i, EnsuresAttr)
\* Every stack of 1..MaxAnnotations annotations, the i-th carrying id i.
Stacks ==
    UNION {{[i \in 1..n |-> Annotation(i, ks[i])] : ks \in [1..n -> {"requires", "ensures"}]}
           : n \in 1..MaxAnnotations}
ExpandLeaves == {Lit("a"), Mut, Ret0}
ExpandBodies == BodiesUpTo(MaxExpandBody, ExpandLeaves)

\* Markers the function may already carry when the first annotation is expanded:
\* none (Untouched), or the replace_dummy tag.
InitialMarkers == {<<>>, <<IsContractGenerated("replace_dummy")>>}

InitExpand ==
    /\ \E st \in Stacks, b \in ExpandBodies, m \in InitialMarkers :
          items = <<ItemFn(OriginalIdent, st \o m, Params, Block(<<b>>))>>
    /\ last = IdleLast
    /\ InjectIdle /\ LiftIdle /\ WrapperIdle /\ PlaceIdle /\ ContractIdle /\ AttrsIdle /\ DriverIdle

HasAnnotation(item) == \E j \in 1..Len(item.attrs) : IsContractAnnotation(item.attrs[j])
FirstAnnotation(item) ==
    CHOOSE j \in 1..Len(item.attrs) :
        /\ IsContractAnnotation(item.attrs[j])
        /\ \A l \in 1..(j - 1) : ~IsContractAnnotation(item.attrs[l])
RemoveAt(s, j) == SubSeq(s, 1, j - 1) \o SubSeq(s, j + 1, Len(s))

\* The compiler expands the outermost contract annotation of the i-th item:
\* requires()/ensures() receive the item without that annotation, and the
\* output takes the item's place.
Expand(i) ==
    /\ HasAnnotation(items[i])
    /\ LET j == FirstAnnotation(items[i])
           ann == items[i].attrs[j]
           item == [items[i] EXCEPT !.attrs = RemoveAt(items[i].attrs, j)]
           out == requires_ensures_alt(ann, item)
       IN /\ items' = SubSeq(items, 1, i - 1) \o out \o SubSeq(items, i + 1, Len(items))
          /\ last' = [state |-> function_state_of(item), ann |-> ann,
                      input |-> item, output |-> out]
    /\ UNCHANGED <<sess, driver, parse, gcx, inj, lift, REENTRY, stack, unwinding, calls, hist>>

\* Every node of a body, in pre-order.
RECURSIVE NodeSeq(_)
RECURSIVE NodeSeqOfBlock(_)
NodeSeq(e) ==
    <<e>> \o
    CASE e.k = "ret" -> IF e.e = None THEN <<>> ELSE NodeSeq(e.e[1])
      [] e.k \in {"closure", "fnitem", "let", "try"} -> NodeSeq(e.e)
      [] e.k = "if" -> NodeSeq(e.t) \o NodeSeq(e.f)
      [] e.k = "block" -> NodeSeqOfBlock(e.s)
      [] OTHER -> <<>>
NodeSeqOfBlock(s) == IF s = <<>> THEN <<>> ELSE NodeSeq(Head(s)) \o NodeSeqOfBlock(Tail(s))

\* The annotations (ids) a body has a layer of.
LayerIds(body) ==
    LET ns == NodeSeq(body) IN
    {ns[i].c.id : i \in {j \in 1..Len(ns) : ns[j].k \in {"assume", "assert"}}}

NextExpand == \E i \in 1..Len(items) : Expand(i)

SpecExpand == InitExpand /\ [][NextExpand]_vars

\* --------------------------------------------------- execution of a body
\* What executing a statement does, as an event [ev, c]: c is the annotation
\* the statement was generated from, NoClause for the original body's own.
NoClause == [id |-> 0, kind |-> "body"]
Event(ev, c) == [ev |-> ev, c |-> c]
Fall(tr) == [tr |-> tr, ex |-> "fall"]

\* Every execution path through expression `e` (a branch may go either way):
\* the events in order and how the path ends, "fall" (falls through to what
\* follows), "ret" (a return leaves the function) or "panic".  A closure
\* or a nested fn item only defines its body, which does not run here; `e?`
\* either yields the value of e or returns its residual from the function.
RECURSIVE Paths(_)
RECURSIVE SeqPaths(_)
Paths(e) ==
    CASE e.k = "lit" -> {Fall(<<Event("value", NoClause)>>)}
      [] e.k = "mut" -> {Fall(<<Event("mut", NoClause)>>)}
      [] e.k = "closure" -> {Fall(<<Event("value", NoClause)>>)}
      [] e.k = "fnitem" -> {Fall(<<>>)}
      [] e.k = "path" -> {Fall(<<>>)}
      [] e.k = "ret" ->
            IF e.e = None THEN {[tr |-> <<Event("ret", NoClause)>>, ex |-> "ret"]}
            ELSE {IF p.ex = "fall"
                  THEN [tr |-> p.tr \o <<Event("ret", NoClause)>>, ex |-> "ret"]
                  ELSE p : p \in Paths(e.e[1])}
      [] e.k = "try" ->
            UNION {IF p.ex = "fall"
                   THEN {p, [tr |-> p.tr \o <<Event("residual", NoClause)>>, ex |-> "ret"]}
                   ELSE {p} : p \in Paths(e.e)}
      [] e.k = "if" -> Paths(e.t) \cup Paths(e.f)
      [] e.k = "block" -> SeqPaths(e.s)
      [] e.k = "let" ->
            {IF p.ex = "fall" THEN Fall(p.tr \o <<Event("bind", NoClause)>>) ELSE p
                : p \in Paths(e.e)}
      [] e.k = "letold" -> {Fall(<<Event("old", e.c)>>)}
      [] e.k = "untracked" -> {Fall(<<Event("copy", e.c)>>)}
      [] e.k = "forget" -> {Fall(<<Event("forget", e.c)>>)}
      [] e.k = "assume" -> {Fall(<<Event("assume", e.c)>>)}
      [] e.k = "assert" -> {Fall(<<Event("assert", e.c)>>)}
      [] e.k = "call" -> {Fall(<<Event("call", NoClause)>>)}
      [] e.k = "unreachable" -> {[tr |-> <<Event("panic", NoClause)>>, ex |-> "panic"]}
      [] OTHER -> {Fall(<<>>)}
SeqPaths(s) ==
    IF s = <<>> THEN {Fall(<<>>)}
    ELSE UNION {IF p.ex # "fall" THEN {p}
                ELSE {[tr |-> p.tr \o q.tr, ex |-> q.ex] : q \in SeqPaths(Tail(s))}
                : p \in Paths(Head(s))}

\* The positions of the events of kind `ev` generated from annotation `c`.
EventsAt(tr, ev, c) == {i \in 1..Len(tr) : tr[i].ev = ev /\ tr[i].c = c}
\* The events with which the guarded call (the original body, or the call of
\* the dummy) runs.
IsGuardedCallEvent(x) == x.ev \in {"value", "mut", "ret", "residual", "call"}

\* ------------------------------------------------------------- SpecInject
\* make_check_body for one ensures clause, on its own, over every body of up
\* to MaxInjectBody nodes.
InjectLeaves == {Lit("a"), Lit("b"), Ret0}
InjectBodies == BodiesUpTo(MaxInjectBody, InjectLeaves)
InjectClause == [id |-> 1, kind |-> "ensures"]
InjectHandler(b) == ContractConditionsHandler(FALSE, EnsuresAttr, Params, Block(<<b>>), InjectClause)

InitInject ==
    /\ \E b \in InjectBodies : inj = [phase |-> "in", body |-> b]
    /\ ExpandIdle /\ LiftIdle /\ WrapperIdle /\ PlaceIdle /\ ContractIdle /\ AttrsIdle /\ DriverIdle

\* The handler is built for the clause and make_check_body is called; `out` is
\* the body after inject_conditions.visit_block_mut, `check` the whole new body.
BuildCheckBody ==
    /\ inj.phase = "in"
    /\ LET h == InjectHandler(inj.body) IN
       inj' = [phase |-> "out", body |-> inj.body,
               tokens |-> exec_postconditions(h),
               out |-> PostconditionInjector(exec_postconditions(h), h.body),
               check |-> Block(make_check_body(h))]
    /\ UNCHANGED <<sess, driver, parse, gcx, items, last, lift, REENTRY, stack, unwinding, calls, hist>>

NextInject == BuildCheckBody

SpecInject == InitInject /\ [][NextInject]_vars

\* --------------------------------------------------------------- SpecLift
\* ContractConditionsType::new_ensures on its own, over every postcondition of
\* up to MaxLiftExpr nodes.
LiftLeaves == {Var(Ident("p")), Var(Ident("q")), Var(ResultIdent)}
RECURSIVE ClausesOfSize(_)
ClausesOfSize(n) ==
    IF n = 1 THEN LiftLeaves
    ELSE {Old(a) : a \in ClausesOfSize(n - 1)}
         \cup UNION {{Bin(l, r) : l \in ClausesOfSize(i), r \in ClausesOfSize(n - 1 - i)}
                     : i \in 1..(n - 2)}
LiftClauses == UNION {ClausesOfSize(n) : n \in 1..MaxLiftExpr}

InitLift ==
    /\ \E e \in LiftClauses : lift = [phase |-> "in", attr |-> e]
    /\ ExpandIdle /\ InjectIdle /\ WrapperIdle /\ PlaceIdle /\ ContractIdle /\ AttrsIdle /\ DriverIdle

LiftClause ==
    /\ lift.phase = "in"
    /\ lift' = [phase |-> "out", attr |-> lift.attr, res |-> new_ensures(Params, lift.attr)]
    /\ UNCHANGED <<sess, driver, parse, gcx, items, last, inj, REENTRY, stack, unwinding, calls, hist>>

NextLift == LiftClause

SpecLift == InitLift /\ [][NextLift]_vars

\* ------------------------------------------------------------- SpecWrapper
\* One run of a harness with the contracted function `f` stubbed by its
\* recursion wrapper: the harness and the original body (inside the check
\* variant) call `f` through the wrapper; the replace variant calls the dummy.
\* A frame is [fn, pc, branch, result, n]; the harness is below the stack.
Values == {"v1", "v2"}
Frame(fn) == [fn |-> fn, pc |-> "entry", branch |-> "none", result |-> "none", n |-> 0]
Top == stack[Len(stack)]
Running(fn, pc) == ~unwinding /\ stack # <<>> /\ Top.fn = fn /\ Top.pc = pc
Pop == SubSeq(stack, 1, Len(stack) - 1)
SetTop(f) == [stack EXCEPT ![Len(stack)] = f]
Push(f, callee) == Append(SetTop(f), callee)
\* The top frame returns `val` to its caller.
ReturnTo(val) ==
    IF Len(stack) = 1 THEN <<>>
    ELSE [Pop EXCEPT ![Len(stack) - 1] = [@ EXCEPT !.pc = "returned", !.result = val]]
\* hist: the latest step, and `leaked`: a check invocation has unwound through
\* the wrapper.
Hist(op, branch, before, val) ==
    [op |-> op, branch |-> branch, before |-> before, val |-> val, leaked |-> hist.leaked]

InitWrapper ==
    /\ REENTRY = FALSE     \* `static mut REENTRY: bool = false;`
    /\ stack = <<>>
    /\ unwinding = FALSE
    /\ calls = 0
    /\ hist = [op |-> "none", branch |-> "none", before |-> FALSE, val |-> "none",
               leaked |-> FALSE]
    /\ ExpandIdle /\ InjectIdle /\ LiftIdle /\ PlaceIdle /\ ContractIdle /\ AttrsIdle /\ DriverIdle

\* The harness calls `f`, that is, the wrapper.
HarnessCall ==
    /\ stack = <<>> /\ ~unwinding /\ calls < MaxHarnessCalls
    /\ stack' = <<Frame("wrapper")>>
    /\ calls' = calls + 1
    /\ hist' = Hist("call", "none", REENTRY, "none")
    /\ UNCHANGED <<sess, driver, parse, gcx, REENTRY, unwinding, items, last, inj, lift>>

\* `if unsafe { REENTRY } { replace(..) } else { unsafe { REENTRY = true }; check(..) ..`
WrapperBranch_always_check(flag) == "check"
WrapperBranch(flag) == IF flag THEN "replace" ELSE "check"
WrapperDispatch ==
    /\ Running("wrapper", "entry")
    /\ LET branch == WrapperBranch(REENTRY) IN
       /\ REENTRY' = IF branch = "check" THEN TRUE ELSE REENTRY
       /\ stack' = Push([Top EXCEPT !.pc = "called", !.branch = branch], Frame(branch))
       /\ hist' = Hist("dispatch", branch, REENTRY, "none")
    /\ UNCHANGED <<sess, driver, parse, gcx, unwinding, calls, items, last, inj, lift>>

\* `unsafe { REENTRY = false }; result` after the check variant returned; the
\* call of the replace variant is the branch's value, nothing follows it.
FlagAfterCheck_kept == TRUE
FlagAfterCheck == FALSE
WrapperFinish ==
    /\ Running("wrapper", "returned")
    /\ REENTRY' = IF Top.branch = "check" THEN FlagAfterCheck ELSE REENTRY
    /\ stack' = ReturnTo(Top.result)
    /\ hist' = Hist("wrapper_return", Top.branch, REENTRY, Top.result)
    /\ UNCHANGED <<sess, driver, parse, gcx, unwinding, calls, items, last, inj, lift>>

\* The original body, inside the check variant, calls `f` again.
CheckCallSelf ==
    /\ \/ Running("check", "entry") \/ Running("check", "returned")
    /\ Top.n < MaxSelfCalls /\ Len(stack) < MaxStack
    /\ stack' = Push([Top EXCEPT !.pc = "called", !.n = Top.n + 1], Frame("wrapper"))
    /\ hist' = Hist("call", "none", REENTRY, "none")
    /\ UNCHANGED <<sess, driver, parse, gcx, REENTRY, unwinding, calls, items, last, inj, lift>>

\* The check variant returns a value.
CheckReturn ==
    /\ \/ Running("check", "entry") \/ Running("check", "returned")
    /\ \E v \in Values :
          /\ stack' = ReturnTo(v)
          /\ hist' = Hist("check_return", "check", REENTRY, v)
    /\ UNCHANGED <<sess, driver, parse, gcx, REENTRY, unwinding, calls, items, last, inj, lift>>

\* The check variant panics (the body, or a failed postcondition).
CheckPanic ==
    /\ \/ Running("check", "entry") \/ Running("check", "returned")
    /\ unwinding' = TRUE
    /\ hist' = Hist("panic", "check", REENTRY, "none")
    /\ UNCHANGED <<sess, driver, parse, gcx, REENTRY, stack, calls, items, last, inj, lift>>

\* The replace variant: the precondition holds and the dummy is called.
ReplaceCallDummy ==
    /\ Running("replace", "entry")
    /\ stack' = Push([Top EXCEPT !.pc = "called"], Frame("dummy"))
    /\ hist' = Hist("call_dummy", "replace", REENTRY, "none")
    /\ UNCHANGED <<sess, driver, parse, gcx, REENTRY, unwinding, calls, items, last, inj, lift>>

\* The replace variant: the asserted precondition fails.
ReplacePanic ==
    /\ Running("replace", "entry")
    /\ unwinding' = TRUE
    /\ hist' = Hist("panic", "replace", REENTRY, "none")
    /\ UNCHANGED <<sess, driver, parse, gcx, REENTRY, stack, calls, items, last, inj, lift>>

\* The replace variant returns what the dummy returned.
ReplaceFinish ==
    /\ Running("replace", "returned")
    /\ stack' = ReturnTo(Top.result)
    /\ hist' = Hist("replace_return", "replace", REENTRY, Top.result)
    /\ UNCHANGED <<sess, driver, parse, gcx, REENTRY, unwinding, calls, items, last, inj, lift>>

\* The dummy: the verifier puts an arbitrary result in place of its call.
DummyReturn ==
    /\ Running("dummy", "entry")
    /\ \E v \in Values :
          /\ stack' = ReturnTo(v)
          /\ hist' = Hist("dummy_return", "none", REENTRY, v)
    /\ UNCHANGED <<sess, driver, parse, gcx, REENTRY, unwinding, calls, items, last, inj, lift>>

\* The dummy as compiled: `unreachable!()`.
DummyUnreachable ==
    /\ Running("dummy", "entry")
    /\ unwinding' = TRUE
    /\ hist' = Hist("panic", "none", REENTRY, "none")
    /\ UNCHANGED <<sess, driver, parse, gcx, REENTRY, stack, calls, items, last, inj, lift>>

\* A panic leaves the top frame: nothing of the frame's remaining code runs,
\* so the wrapper's `REENTRY = false` does not run either.
FlagAfterUnwind_reset_by_wrapper(flag, frame) ==
    IF frame.fn = "wrapper" /\ frame.branch = "check" THEN FALSE ELSE flag
FlagAfterUnwind(flag, frame) == flag
Unwind ==
    /\ unwinding /\ stack # <<>>
    /\ REENTRY' = FlagAfterUnwind(REENTRY, Top)
    /\ stack' = Pop
    /\ hist' = [Hist("unwind", Top.branch, REENTRY, "none") EXCEPT
                   !.leaked = hist.leaked \/ (Top.fn = "wrapper" /\ Top.branch = "check")]
    /\ UNCHANGED <<sess, driver, parse, gcx, unwinding, calls, items, last, inj, lift>>

\* The harness catches the panic and goes on.
HarnessCatch ==
    /\ unwinding /\ stack = <<>>
    /\ unwinding' = FALSE
    /\ hist' = Hist("catch", "none", REENTRY, "none")
    /\ UNCHANGED <<sess, driver, parse, gcx, REENTRY, stack, calls, items, last, inj, lift>>

NextWrapper ==
    \/ HarnessCall \/ WrapperDispatch \/ WrapperFinish
    \/ CheckCallSelf \/ CheckReturn \/ CheckPanic
    \/ ReplaceCallDummy \/ ReplacePanic \/ ReplaceFinish
    \/ DummyReturn \/ DummyUnreachable
    \/ Unwind \/ HarnessCatch

SpecWrapper == InitWrapper /\ [][NextWrapper]_vars
\* The program is the only thread and keeps running while it has a step.
SpecWrapperFair == SpecWrapper /\ WF_vars(NextWrapper)

\* -------------------------------------------------------------- SpecPlace
\* The token trees of an `assigns(...)` / `frees(...)` clause.
\* TokenTree::Token of the kinds "star", "dot", "comma" and "dotdot", an
\* identifier, a literal, and TokenTree::Delimited by "paren" or "bracket".
Token(kind) == [k |-> kind]
TIdent(n) == [k |-> "ident", n |-> n]
TLit(n) == [k |-> "lit", n |-> n]
Delimited(delim, inner) == [k |-> delim, inner |-> inner]

\* The function the clause is written on:
\* `fn f(&mut self, a: Arr, i: usize, p: &usize)` with `struct Arr { ptr, len, cap }`.
Ty(kind) == [k |-> kind]
TyAdt(n) == [k |-> "adt", n |-> n]
TyRef(to) == [k |-> "ref", to |-> to]
ParamNames == <<"self", "a", "i", "p">>
ParamTypes == <<TyRef(TyAdt("Arr")), TyAdt("Arr"), Ty("usize"), TyRef(Ty("usize"))>>
Fields(adt) ==
    IF adt = "Arr" THEN <<[name |-> "ptr", ty |-> Ty("nonnull")], [name |-> "len", ty |-> Ty("usize")],
                          [name |-> "cap", ty |-> Ty("usize")]>>
    ELSE <<>>

\* mir::Place and its projection elements.
Deref == [k |-> "Deref"]
Field(fidx, ty) == [k |-> "Field", fidx |-> fidx, ty |-> ty]
PlaceFrom(local) == [local |-> local, projection |-> <<>>]
\* Place::ty: the type of a place, from the local's declaration on.
RECURSIVE ProjectionTy(_, _)
ProjectionTy(ty, projection) ==
    IF projection = <<>> THEN ty
    ELSE ProjectionTy(IF Head(projection).k = "Deref"
                      THEN (IF ty.k = "ref" THEN ty.to ELSE Ty("ill"))
                      ELSE Head(projection).ty,
                      Tail(projection))
PlaceTy(place) == ProjectionTy(ParamTypes[place.local], place.projection)

\* AssignsRange { base, slice }
AssignsRange(base, slice) == [base |-> base, slice |-> slice]
\* AssignsRange::expect_base_only without its assertion.
expect_base_only_unchecked(self) == [panic |-> FALSE, base |-> self.base]

\* AssignsRange::expect_base_only: the base, or a panic when there is a slice.
expect_base_only(self) == [panic |-> self.slice # None, base |-> self.base]

\* AssignsRange::project_deeper
project_deeper(self, projections) ==
    [self EXCEPT !.base.projection = @ \o projections]

\* An iterator over token trees: the stream, the position of the next tree,
\* and whether it is wrapped in an UntilDotDot (with that wrapper's flag).
TokenIter(s, pos) == [s |-> s, pos |-> pos, until |-> FALSE, seen_dot_dot |-> FALSE]
\* UntilDotDot::new
UntilDotDot_new(inner) == [inner EXCEPT !.until = TRUE, !.seen_dot_dot = FALSE]
\* The statement `self.seen_dot_dot;` of UntilDotDot::next: an expression
\* statement, it assigns nothing.
seen_dot_dot_statement(self) == self

\* Iterator::next, of the plain cursor and of UntilDotDot.
IterNext(t) ==
    IF t.until /\ t.seen_dot_dot THEN [tok |-> None, t |-> t]
    ELSE IF t.pos > Len(t.s) THEN [tok |-> None, t |-> t]
    ELSE IF t.until /\ t.s[t.pos].k = "dotdot"
         THEN [tok |-> None, t |-> seen_dot_dot_statement([t EXCEPT !.pos = t.pos + 1])]
         ELSE [tok |-> Some(t.s[t.pos]), t |-> [t EXCEPT !.pos = t.pos + 1]]

\* The closure `skip` of parse_place: skip_while(is comma) and then count(),
\* which drains the iterator.
RECURSIVE skip(_)
skip(t) == IF IterNext(t).tok = None THEN IterNext(t).t ELSE skip(IterNext(t).t)

\* What a call of parse_place comes to: it returns (st = "ret") an
\* Option<AssignsRange>, or it ends the compilation with span_fatal ("fatal")
\* or with a panic ("panic"); t is the iterator as the call leaves it and
\* errs the diagnostics it emitted.
Returned(val, t, errs) == [st |-> "ret", val |-> val, t |-> t, errs |-> errs]
Aborted(st, t, errs) == [st |-> st, val |-> None, t |-> t, errs |-> errs]

ErrSliceNotLast == "Slice pattern is only supported as last projection"
ErrSubsliceDenied(elem) == "Subslice pattern is not allowed in " \o elem \o "."

IsParam(id) == \E l \in 1..Len(ParamNames) : ParamNames[l] = id
ParamLocal(id) == CHOOSE l \in 1..Len(ParamNames) : ParamNames[l] = id

\* The `.field` arm of parse_place's loop: the base projected onto the field.
field_projection(base, field) ==
    IF expect_base_only(base).panic THEN [st |-> "panic", base |-> base, errs |-> <<>>]
    ELSE IF PlaceTy(expect_base_only(base).base).k # "adt"
    THEN [st |-> "panic", base |-> base, errs |-> <<>>]
    ELSE IF ~\E x \in 1..Len(Fields(PlaceTy(base.base).n)) :
                  Fields(PlaceTy(base.base).n)[x].name = field
    THEN [st |-> "fatal", base |-> base, errs |-> <<"Could not find field " \o field>>]
    ELSE LET fs == Fields(PlaceTy(base.base).n)
             fidx == CHOOSE x \in 1..Len(fs) : fs[x].name = field
         IN [st |-> "ok", base |-> project_deeper(base, <<Field(fidx, fs[fidx].ty)>>),
             errs |-> <<>>]

\* Option::map(AssignsRange::expect_base_only) of a slice bound.
BoundPanics(r) == r.val # None /\ expect_base_only(r.val[1]).panic
BoundPlace(r) == IF r.val = None THEN None ELSE Some(expect_base_only(r.val[1]).base)

\* The diagnostic the slice arm emits when subslices are denied.
deny_wildcard_subslice_err(deny_wildcard_subslice) ==
    IF deny_wildcard_subslice # None THEN <<ErrSubsliceDenied(deny_wildcard_subslice[1])>>
    ELSE <<>>

RECURSIVE parse_place(_, _)
RECURSIVE parse_place_loop(_, _, _, _)
RECURSIVE parse_place_slice(_, _, _, _, _)

\* parse_place, from `let mut base = match tree` on.
parse_place(t, deny_wildcard_subslice) ==
    LET n == IterNext(t) IN
    IF n.tok = None THEN Returned(None, n.t, <<>>)
    ELSE
      LET tree == n.tok[1] IN
      CASE tree.k = "paren" ->
             LET res == parse_place(TokenIter(tree.inner, 1), deny_wildcard_subslice) IN
             IF res.st # "ret" THEN Aborted(res.st, n.t, res.errs)
             ELSE IF res.val = None
             THEN Returned(None, n.t, res.errs \o <<"Expected an lvalue in the parentheses">>)
             ELSE parse_place_loop(res.val[1], n.t, deny_wildcard_subslice,
                                   res.errs \o (IF IterNext(res.t).tok # None
                                                THEN <<"Expected only one lvalue in parenthesized expression">> ELSE <<>>))
        [] tree.k = "ident" ->
             IF ~IsParam(tree.n) THEN Aborted("panic", n.t, <<>>)
             ELSE parse_place_loop(AssignsRange(PlaceFrom(ParamLocal(tree.n)), None), n.t,
                                   deny_wildcard_subslice, <<>>)
        [] tree.k = "star" ->
             LET res == parse_place(n.t, deny_wildcard_subslice) IN
             IF res.st # "ret" THEN res
             ELSE IF res.val = None
             THEN Returned(None, skip(res.t), res.errs \o <<"Expected this dereference to be followed by an lvalue">>)
             ELSE parse_place_loop(project_deeper(res.val[1], <<Deref>>), res.t,
                                   deny_wildcard_subslice, res.errs)
        [] OTHER -> Aborted("fatal", n.t, <<"Parse error in assigns clause, expected *, identifier or parentheses">>)

\* parse_place's loop `while let Some(tree) = t.next()` over the projections.
parse_place_loop(base, t, deny_wildcard_subslice, errs) ==
    LET n == IterNext(t) IN
    IF n.tok = None THEN Returned(Some(base), n.t, errs)
    ELSE
      LET tree == n.tok[1] IN
      CASE tree.k = "comma" -> Returned(Some(base), n.t, errs)
        [] tree.k = "dot" ->
             LET m == IterNext(n.t) IN
             IF m.tok # None /\ m.tok[1].k = "ident"
             THEN LET f == field_projection(base, m.tok[1].n) IN
                  IF f.st # "ok" THEN Aborted(f.st, m.t, errs \o f.errs)
                  ELSE parse_place_loop(f.base, m.t, deny_wildcard_subslice, errs)
             ELSE Aborted("panic", m.t, errs)
        [] tree.k = "bracket" ->
             parse_place_slice(base, n.t, tree.inner, deny_wildcard_subslice, errs)
        [] tree.k = "paren" -> Aborted("fatal", n.t, errs \o <<"Unexpected token, expected field projection, slice pattern or comma">>)
        [] OTHER -> Aborted("panic", n.t, errs)

\* The slice arm of the loop: `[from..to]` with both bounds optional.
parse_place_slice(base, t, inner, deny_wildcard_subslice, errs) ==
    LET from == parse_place(UntilDotDot_new(TokenIter(inner, 1)), deny_wildcard_subslice) IN
    IF from.st # "ret" THEN Aborted(from.st, t, errs \o from.errs)
    ELSE IF BoundPanics(from) THEN Aborted("panic", t, errs \o from.errs)
    ELSE
      LET saw_dot_dot == from.t.seen_dot_dot
          it == TokenIter(inner, from.t.pos)
          asserted == IF saw_dot_dot THEN IterNext(it) ELSE [tok |-> None, t |-> it]
      IN
      IF asserted.tok # None THEN Aborted("panic", t, errs \o from.errs)
      ELSE
        LET to == parse_place(asserted.t, deny_wildcard_subslice) IN
        IF to.st # "ret" THEN Aborted(to.st, t, errs \o from.errs \o to.errs)
        ELSE IF BoundPanics(to) THEN Aborted("panic", t, errs \o from.errs \o to.errs)
        ELSE
          LET after == IterNext(t)
              all == errs \o from.errs \o to.errs
                     \o (IF after.tok # None /\ after.tok[1].k # "comma"
                         THEN <<ErrSliceNotLast>> ELSE <<>>)
                     \o deny_wildcard_subslice_err(deny_wildcard_subslice)
          IN
          IF expect_base_only(base).panic THEN Aborted("panic", after.t, all)
          ELSE Returned(Some(AssignsRange(expect_base_only(base).base,
                                          Some(<<BoundPlace(from), BoundPlace(to)>>))),
                        after.t, all)

\* The entries a clause is written from.
IdentSelf == TIdent("self")
EntryDerefField(field) == <<Delimited("paren", <<Token("star"), IdentSelf>>), Token("dot"), TIdent(field)>>   \* (*self).f
EntrySlice(prefix, from, to) == prefix \o <<Delimited("bracket", from \o <<Token("dotdot")>> \o to)>>
Entries ==
    {EntryDerefField(f) : f \in {"ptr", "len", "cap"}}
    \cup {EntrySlice(<<TIdent("a")>>, from, to) :
              from \in {<<>>, <<TIdent("i")>>}, to \in {<<>>, <<TIdent("i")>>}}
    \cup {<<Token("star"), IdentSelf>>,                                             \* *self
          <<TIdent("a"), Token("dot"), TIdent("len")>>,                             \* a.len
          EntrySlice(<<TIdent("a"), Token("dot"), TIdent("ptr")>>, <<TIdent("i")>>, <<>>),   \* a.ptr[i..]
          EntrySlice(<<TIdent("a"), Token("dot"), TIdent("ptr")>>, <<TLit("2")>>, <<>>),     \* a.ptr[2..]
          EntrySlice(<<TIdent("a")>>, <<Token("star"), TIdent("p")>>, <<TIdent("i")>>),      \* a[*p..i]
          EntrySlice(<<TIdent("a"), Token("dot"), TIdent("ptr")>>, <<>>, <<>>)
              \o <<Token("dot"), TIdent("len")>>,                                   \* a.ptr[..].len
          <<TIdent("a"), Delimited("bracket", <<TIdent("i")>>)>>,                   \* a[i]
          <<Delimited("paren", <<>>)>>,                                                 \* ()
          <<Token("star"), Delimited("paren", <<>>)>>}                                          \* *()

\* The entries of a clause, comma-separated.
RECURSIVE CommaSeparated(_)
CommaSeparated(es) ==
    IF Len(es) = 1 THEN es[1] ELSE es[1] \o <<Token("comma")>> \o CommaSeparated(Tail(es))
EntryLists == UNION {[1..n -> Entries] : n \in 1..MaxEntries}

NoCall == [from |-> 0, to |-> 0, st |-> "none", val |-> None, yielded |-> FALSE]
InitPlace ==
    /\ \E es \in EntryLists, kind \in {"assigns", "frees"} :
          parse = [status |-> "running", kind |-> kind, entries |-> es,
                   clause |-> CommaSeparated(es), cursor |-> 1, out |-> <<>>,
                   diags |-> <<>>, call |-> NoCall]
    /\ ExpandIdle /\ InjectIdle /\ LiftIdle /\ WrapperIdle /\ ContractIdle /\ AttrsIdle /\ DriverIdle

\* `it.peek().is_some()` of the closures of parse_assign_values and
\* parse_frees_values.
PeekIsSome == parse.status = "running" /\ parse.cursor <= Len(parse.clause)
CallRecord(r, yielded) ==
    [from |-> parse.cursor, to |-> r.t.pos, st |-> r.st, val |-> r.val, yielded |-> yielded]

\* parse_assign_values: one item of the iterator, parse_place(.., None) with
\* a None filtered out.
ParseAssignValue ==
    /\ PeekIsSome /\ parse.kind = "assigns"
    /\ LET r == parse_place(TokenIter(parse.clause, parse.cursor), None) IN
       parse' = [parse EXCEPT !.status = IF r.st = "ret" THEN "running" ELSE r.st,
                              !.cursor = r.t.pos,
                              !.out = IF r.st = "ret" /\ r.val # None
                                      THEN Append(@, r.val[1]) ELSE @,
                              !.diags = @ \o r.errs,
                              !.call = CallRecord(r, r.st = "ret" /\ r.val # None)]
    /\ UNCHANGED <<sess, driver, items, last, inj, lift, REENTRY, stack, unwinding, calls, hist, gcx>>

\* parse_frees_values: one item of the iterator, parse_place(.., Some("`frees`
\* clause")) with a None filtered out and expect_base_only mapped over it.
ParseFreesValue ==
    /\ PeekIsSome /\ parse.kind = "frees"
    /\ LET r == parse_place(TokenIter(parse.clause, parse.cursor), Some("frees clause"))
           mapped == r.st = "ret" /\ r.val # None
       IN
       parse' = [parse EXCEPT !.status = IF r.st # "ret" THEN r.st
                                         ELSE IF mapped /\ expect_base_only(r.val[1]).panic
                                         THEN "panic" ELSE "running",
                              !.cursor = r.t.pos,
                              !.out = IF mapped /\ ~expect_base_only(r.val[1]).panic
                                      THEN Append(@, expect_base_only(r.val[1]).base) ELSE @,
                              !.diags = @ \o r.errs,
                              !.call = CallRecord(r, mapped /\ ~expect_base_only(r.val[1]).panic)]
    /\ UNCHANGED <<sess, driver, items, last, inj, lift, REENTRY, stack, unwinding, calls, hist, gcx>>

\* The closure finds `it.peek()` to be None: the iterator is exhausted and
\* the values are collected.
ParseValuesEnd ==
    /\ parse.status = "running" /\ parse.cursor > Len(parse.clause)
    /\ parse' = [parse EXCEPT !.status = "done"]
    /\ UNCHANGED <<sess, driver, items, last, inj, lift, REENTRY, stack, unwinding, calls, hist, gcx>>

NextPlace == ParseAssignValue \/ ParseFreesValue \/ ParseValuesEnd

SpecPlace == InitPlace /\ [][NextPlace]_vars

\* ----------------------------------------------------------- SpecContract
\* MonoItem::Fn(Instance { def, .. }) and MonoItem::Static.
MonoFn(def, args) == [k |-> "Fn", def |-> def, args |-> args]
MonoStatic(def) == [k |-> "Static", def |-> def]
\* `function_under_contract_attrs.inner_check()`: the checked function.
wrapped_fn == "f_check"
\* The items reachable from a harness: instances of the checked function, of
\* another function, and a static.
ReachableItems ==
    {MonoFn(wrapped_fn, "u8"), MonoFn(wrapped_fn, "u16"), MonoFn("g", "u8"), MonoStatic("S")}
IsInjective(q) == \A x, y \in 1..Len(q) : x # y => q[x] # q[y]
ItemLists == UNION {{q \in [1..n -> ReachableItems] : IsInjective(q)} : n \in 0..MaxItems}

\* `items.iter().filter_map(..)`: the instances of the checked function among
\* the reachable items, in order.
RECURSIVE instance_under_contract(_)
instance_under_contract(its) ==
    IF its = <<>> THEN <<>>
    ELSE (IF Head(its).k = "Fn" /\ Head(its).def = wrapped_fn THEN <<Head(its)>> ELSE <<>>)
         \o instance_under_contract(Tail(its))

\* The first instance taken without asserting that it is the only one.
instance_of_check_unasserted(instances) ==
    [panic |-> instances = <<>>, instance |-> IF instances = <<>> THEN None ELSE Some(instances[1])]

\* `instance_under_contract.next().unwrap()` and the assertion that a second
\* `next()` is None: the one instance, or a panic.
instance_of_check(instances) ==
    [panic |-> Len(instances) # 1,
     instance |-> IF Len(instances) # 1 THEN None ELSE Some(instances[1])]

\* symbol_name_stable: the mangled name of an instance.
symbol_name_stable(instance) == <<instance.def, instance.args>>
\* "{file}:{item_name(recursion_wrapper)}::REENTRY"
full_name == <<"lib.rs", "f_recursion_wrapper", "REENTRY">>
AssignsContract(recursion_tracker, contracted_function_name) ==
    [recursion_tracker |-> recursion_tracker,
     contracted_function_name |-> contracted_function_name]

InitContract ==
    /\ \E its \in ItemLists, modifies \in {None, Some(<<1>>)} :
          gcx = [phase |-> "ready", items |-> its, modifies_contract |-> modifies,
                 symbol_table |-> {}, assigns_contract |-> None]
    /\ ExpandIdle /\ InjectIdle /\ LiftIdle /\ WrapperIdle /\ PlaceIdle /\ AttrsIdle /\ DriverIdle

\* GotocCtx::handle_check_contract, attach_modifies_contract included.
handle_check_contract ==
    /\ gcx.phase = "ready"
    /\ LET found == instance_of_check(instance_under_contract(gcx.items)) IN
       IF found.panic THEN gcx' = [gcx EXCEPT !.phase = "panic"]
       ELSE LET instance == found.instance[1]
                contract == IF gcx.modifies_contract = None THEN <<>>
                            ELSE gcx.modifies_contract[1]
                wrapper_name == symbol_name_stable(instance)
            IN gcx' = [gcx EXCEPT
                         !.phase = "done",
                         !.symbol_table = @ \cup {[name |-> symbol_name_stable(instance),
                                                   contract |-> contract]},
                         !.assigns_contract = Some(AssignsContract(full_name, wrapper_name))]
    /\ UNCHANGED <<sess, driver, items, last, inj, lift, REENTRY, stack, unwinding, calls, hist, parse>>

NextContract == handle_check_contract

SpecContract == InitContract /\ [][NextContract]_vars

\* ------------------------------------------------------------- SpecAttach
\* GotocCtx with its current function and its symbol table; the operations
\* are attach_modifies_contract and the compilation of a function, which has
\* a function current from its start to its end.
AttachInstances == {MonoFn(wrapped_fn, "u8"), MonoFn("g", "u8"), MonoFn("h", "u8")}
ModifiedPlaces == SUBSET (1..MaxLocals)
\* The symbol table: the declared functions by name, each with the contract
\* attached to it so far.
SymbolTables ==
    UNION {[{symbol_name_stable(i) : i \in D} -> {{}}] : D \in SUBSET AttachInstances}
NoAttach == [instance |-> None, entered_with |-> None, name |-> None, st |-> "none"]

InitAttach ==
    /\ \E st \in SymbolTables :
          gcx = [phase |-> "codegen", status |-> "running", current_fn |-> None,
                 symbol_table |-> st, call |-> NoAttach]
    /\ ExpandIdle /\ InjectIdle /\ LiftIdle /\ WrapperIdle /\ PlaceIdle /\ AttrsIdle /\ DriverIdle

Codegen == gcx.phase = "codegen" /\ gcx.status = "running"

\* The compilation of a function starts: the function becomes current.
set_current_fn(instance) ==
    /\ Codegen /\ gcx.current_fn = None
    /\ gcx' = [gcx EXCEPT !.current_fn = Some(instance), !.call = NoAttach]
    /\ UNCHANGED <<sess, driver, items, last, inj, lift, REENTRY, stack, unwinding, calls, hist, parse>>

\* The compilation of the current function ends.
reset_current_fn ==
    /\ Codegen /\ gcx.current_fn # None
    /\ gcx' = [gcx EXCEPT !.current_fn = None, !.call = NoAttach]
    /\ UNCHANGED <<sess, driver, items, last, inj, lift, REENTRY, stack, unwinding, calls, hist, parse>>

\* SymbolTable::attach_contract: merges with the contract attached before.
attach_contract(table, name, contract) == [table EXCEPT ![name] = @ \cup contract]

\* An attachment that leaves the instance current when it returns.
attach_steps_without_reset(cur, table, instance, modified_places) ==
    IF cur # None THEN [st |-> "panic", current_fn |-> cur, table |-> table, name |-> None]
    ELSE LET current == Some(instance)
             name == symbol_name_stable(current[1])
         IN IF name \notin DOMAIN table
            THEN [st |-> "panic", current_fn |-> current, table |-> table, name |-> Some(name)]
            ELSE [st |-> "ret", current_fn |-> current,
                  table |-> attach_contract(table, name, modified_places), name |-> Some(name)]

\* The statements of attach_modifies_contract from a context whose current
\* function is cur: the assertion, set_current_fn, codegen_modifies_contract
\* (which panics when the current function's name is not declared),
\* attach_contract under the current function's name, reset_current_fn.
attach_steps(cur, table, instance, modified_places) ==
    IF cur # None THEN [st |-> "panic", current_fn |-> cur, table |-> table, name |-> None]
    ELSE LET current == Some(instance)
             name == symbol_name_stable(current[1])
         IN IF name \notin DOMAIN table
            THEN [st |-> "panic", current_fn |-> current, table |-> table, name |-> Some(name)]
            ELSE [st |-> "ret", current_fn |-> None,
                  table |-> attach_contract(table, name, modified_places), name |-> Some(name)]

\* GotocCtx::attach_modifies_contract
attach_modifies_contract(instance, modified_places) ==
    /\ Codegen
    /\ LET r == attach_steps(gcx.current_fn, gcx.symbol_table, instance, modified_places) IN
       gcx' = [gcx EXCEPT !.status = IF r.st = "ret" THEN "running" ELSE "panic",
                          !.current_fn = r.current_fn,
                          !.symbol_table = r.table,
                          !.call = [instance |-> Some(instance), entered_with |-> gcx.current_fn,
                                    name |-> r.name, st |-> r.st]]
    /\ UNCHANGED <<sess, driver, items, last, inj, lift, REENTRY, stack, unwinding, calls, hist, parse>>

NextAttach ==
    \/ \E instance \in AttachInstances : set_current_fn(instance)
    \/ reset_current_fn
    \/ \E instance \in AttachInstances, modified_places \in ModifiedPlaces :
          attach_modifies_contract(instance, modified_places)

SpecAttach == InitAttach /\ [][NextAttach]_vars

\* -------------------------------------------------------------- SpecAttrs
\* KaniAttributeKind in the order of its declaration, which is the order of
\* the keys of the BTreeMap; the names are those of strum's snake_case.
KindOrder ==
    <<"proof", "should_panic", "solver", "stub", "unstable", "unwind", "assigns", "frees",
      "stub_verified", "proof_for_contract", "checked_with", "replaced_with",
      "memory_havoc_dummy", "is_contract_generated">>
Kinds == {KindOrder[x] : x \in 1..Len(KindOrder)}
is_harness_only(kind) ==
    kind \in {"proof", "should_panic", "solver", "stub", "proof_for_contract", "stub_verified",
              "unwind"}
is_function_contract(kind) == kind \in {"checked_with", "replaced_with", "is_contract_generated"}
is_function_contract_api(kind) == is_function_contract(kind) \/ kind = "proof_for_contract"

\* An attribute: a doc comment, or a normal attribute with the segments of
\* its path and its arguments: a word (no arguments), a list `(a, b)` or
\* `= value`.
DocComment == [kind |-> "DocComment", path |-> <<>>, form |-> "word", args |-> <<>>]
Attr(path, form, args) == [kind |-> "Normal", path |-> path, form |-> form, args |-> args]
Word(name) == Attr(<<"kanitool", name>>, "word", <<>>)
List(name, args) == Attr(<<"kanitool", name>>, "list", args)
Eq(name, value) == Attr(<<"kanitool", name>>, "eq", <<value>>)

\* A diagnostic: tcx.sess.err / span_err with the parts of its message, each
\* a string; span is the position of the attribute it is reported at, 0 when
\* it has none.
Diag(span, parts) == [span |-> span, parts |-> parts]

\* `.intersperse("::").collect::<String>()`
RECURSIVE Intersperse(_)
Intersperse(segments) ==
    IF segments = <<>> THEN ""
    ELSE IF Len(segments) = 1 THEN segments[1]
    ELSE segments[1] \o "::" \o Intersperse(Tail(segments))

\* An attr_kind that takes every normal attribute with a known name,
\* whatever its first segment.
attr_kind_any_namespace(attrs, span) ==
    LET attr == attrs[span] IN
    IF attr.kind = "Normal" /\ attr.path # <<>>
    THEN LET ident_str == Intersperse(Tail(attr.path)) IN
         IF ident_str \in Kinds THEN [kind |-> Some(ident_str), errs |-> <<>>]
         ELSE [kind |-> None, errs |-> <<Diag(span, <<"unknown attribute", ident_str>>)>>]
    ELSE [kind |-> None, errs |-> <<>>]

\* attr_kind of the attribute at position span: the kind, and the error it
\* reports when the name after kanitool:: is not a kind.
attr_kind(attrs, span) ==
    LET attr == attrs[span] IN
    IF attr.kind = "Normal" /\ attr.path # <<>> /\ attr.path[1] = "kanitool"
    THEN LET ident_str == Intersperse(Tail(attr.path)) IN
         IF ident_str \in Kinds THEN [kind |-> Some(ident_str), errs |-> <<>>]
         ELSE [kind |-> None, errs |-> <<Diag(span, <<"unknown attribute", ident_str>>)>>]
    ELSE [kind |-> None, errs |-> <<>>]

\* `result.entry(kind).or_default().push(attribute)`
entry_push(map, kind, span) ==
    [k \in DOMAIN map \cup {kind} |->
        IF k = kind THEN (IF k \in DOMAIN map THEN Append(map[k], span) ELSE <<span>>)
        ELSE map[k]]
EmptyMap == [k \in {} |-> <<>>]

\* KaniAttributes::for_item: the fold over the first n attributes; the map
\* holds the attributes by their position.
RECURSIVE fold_attributes(_, _)
fold_attributes(attrs, n) ==
    IF n = 0 THEN [map |-> EmptyMap, errs |-> <<>>]
    ELSE LET result == fold_attributes(attrs, n - 1)
             found == attr_kind(attrs, n)
         IN [map |-> IF found.kind # None THEN entry_push(result.map, found.kind[1], n)
                     ELSE result.map,
             errs |-> result.errs \o found.errs]

\* The arguments of a list attribute: a meta item that is a path (`kissat`,
\* `a::b`), a literal, or `key = "value"`; a path is the sequence of its
\* segments and a literal or value the one-segment sequence of its text.
ArgWord(path) == [k |-> "word", v |-> path]
ArgLit(lit, v) == [k |-> "lit", lit |-> lit, v |-> v]
ArgKV(key, val) == [k |-> "kv", key |-> key, v |-> val]

\* The functions of the crate that resolve_fn finds, each path by its
\* segments, and the attributes of the functions that carry a contract: m::T
\* and U do, V does not.
Resolvable ==
    {<<"m", "T">>, <<"U">>, <<"V">>, <<"a">>, <<"b">>, <<"m", "T_recursion_wrapper">>,
     <<"m", "T_replace">>, <<"U_recursion_wrapper">>, <<"U_replace">>}
CrateAttrs(def_id) ==
    CASE def_id = <<"m", "T">> -> <<Eq("checked_with", ArgLit("str", <<"T_recursion_wrapper">>)),
                              Eq("replaced_with", ArgLit("str", <<"T_replace">>)),
                              List("assigns", <<ArgWord(<<"a">>)>>)>>
      [] def_id = <<"U">> -> <<DocComment,
                           Eq("checked_with", ArgLit("str", <<"U_recursion_wrapper">>)),
                           Eq("replaced_with", ArgLit("str", <<"U_replace">>))>>
      [] OTHER -> <<>>

\* The outcome of a call: it returns val (st = "ret"), or ends the session
\* with span_fatal ("fatal") or a panic ("panic"); errs are the diagnostics
\* it emitted, in order.
Ret_(val, errs) == [st |-> "ret", val |-> val, errs |-> errs]
Abort_(st, errs) == [st |-> st, val |-> None, errs |-> errs]

RECURSIVE Concat(_)
Concat(ss) == IF ss = <<>> THEN <<>> ELSE Head(ss) \o Concat(Tail(ss))
FlatErrs(calls_, n) == Concat([x \in 1..n |-> calls_[x].errs])
FlatVals(calls_) == Concat([x \in 1..Len(calls_) |-> calls_[x].val])

\* KaniAttributes { tcx, item, map }
KaniAttributes(item, attrs, map) == [item |-> item, attrs |-> attrs, map |-> map]
is_harness(self) == "proof" \in DOMAIN self.map \/ "proof_for_contract" \in DOMAIN self.map

\* KaniAttributes::expect_maybe_one
expect_maybe_one(self, kind) ==
    IF kind \notin DOMAIN self.map THEN Ret_(None, <<>>)
    ELSE IF Len(self.map[kind]) = 1 THEN Ret_(Some(self.map[kind][1]), <<>>)
    ELSE Ret_(None, <<Diag(0, <<"Too many", kind, "attributes on", self.item, "expected 0 or 1">>)>>)

\* expect_single: the diagnostic it emits.
expect_single(kind, attributes) ==
    IF Len(attributes) > 1
    THEN <<Diag(attributes[1], <<"only one #[kani::", kind, "] attribute is allowed per harness">>)>>
    ELSE <<>>

\* expect_key_string_value
expect_key_string_value(attrs, span) ==
    IF attrs[span].form # "eq"
    THEN Abort_("fatal", <<Diag(span, <<"Expected attribute of the form #[attr = value]">>)>>)
    ELSE IF attrs[span].args[1].k = "lit" /\ attrs[span].args[1].lit = "str"
    THEN Ret_(Some(attrs[span].args[1].v), <<>>)
    ELSE Abort_("fatal", <<Diag(span, <<"Expected literal string as right hand side of =">>)>>)

\* expect_no_args
expect_no_args(kind, attrs, span) ==
    IF attrs[span].form # "word" THEN <<Diag(span, <<"unexpected argument for", kind>>)>> ELSE <<>>

\* parse_solver; `attr.meta_item_list().unwrap()` panics when the attribute
\* is no list.
parse_solver(attrs, span) ==
    LET attr_args == attrs[span].args IN
    IF attrs[span].form # "list" THEN Abort_("panic", <<>>)
    ELSE IF Len(attr_args) # 1
    THEN Ret_(None, <<Diag(span, <<"the #[kani::solver] attribute expects a single argument">>)>>)
    ELSE IF attr_args[1].k = "lit"
    THEN Ret_(None, <<Diag(span, <<"invalid argument for #[kani::solver] attribute">>)>>)
    ELSE IF attr_args[1].k = "word"
    THEN IF attr_args[1].v \in {<<"kissat">>, <<"minisat">>, <<"cadical">>}
         THEN Ret_(Some(attr_args[1].v), <<>>)
         ELSE Ret_(None, <<Diag(span, <<"unknown solver", Intersperse(attr_args[1].v)>>)>>)
    ELSE IF attr_args[1].key = "bin" THEN Ret_(Some(attr_args[1].v), <<>>)
    ELSE Ret_(None, <<Diag(span, <<"invalid argument for #[kani::solver] attribute">>)>>)

\* parse_unwind over parse_integer; the literals of the model are below
\* u32::MAX.
parse_unwind(attrs, span) ==
    LET attr_args == attrs[span].args IN
    IF /\ attrs[span].form = "list" /\ Len(attr_args) = 1
       /\ attr_args[1].k = "lit" /\ attr_args[1].lit = "int"
    THEN Ret_(Some(attr_args[1].v), <<>>)
    ELSE Ret_(None, <<Diag(span, <<"invalid argument for unwind attribute, expected an integer">>)>>)

Stub(original, replacement) == [original |-> original, replacement |-> replacement]
check_resolve(span, name) ==
    IF name \notin Resolvable THEN <<Diag(span, <<"failed to resolve", Intersperse(name)>>)>> ELSE <<>>
\* parse_stubs, one attribute of the iterator: parse_paths and the match on
\* the paths.
parse_stub(attrs, span) ==
    LET paths == IF attrs[span].form = "list" THEN attrs[span].args ELSE <<>> IN
    IF \E x \in 1..Len(paths) : paths[x].k # "word"
    THEN Ret_(None, <<Diag(span, <<"attribute kani::stub takes two path arguments; found argument that is not a path">>)>>)
    ELSE IF Len(paths) = 2
    THEN Ret_(Some(Stub(paths[1].v, paths[2].v)),
              check_resolve(span, paths[1].v) \o check_resolve(span, paths[2].v))
    ELSE Ret_(None, <<Diag(span, <<"attribute kani::stub takes two path arguments; found another number">>)>>)
\* parse_stubs: the stubs, in val, of the attributes that yield one.
parse_stubs(attrs, attributes) ==
    LET each == [x \in 1..Len(attributes) |-> parse_stub(attrs, attributes[x])] IN
    Ret_(FlatVals(each), FlatErrs(each, Len(each)))

\* UnstableAttribute::try_from
UnstableAttribute_try_from(attrs, span) ==
    LET args == attrs[span].args
        keys == {args[x].key : x \in {y \in 1..Len(args) : args[y].k = "kv"}}
        val(key) == (CHOOSE x \in 1..Len(args) : args[x].k = "kv" /\ args[x].key = key)
    IN
    IF attrs[span].form # "list" THEN [ok |-> FALSE, reason |-> "malformed attribute input"]
    ELSE IF \E x \in 1..Len(args) : args[x].k # "kv"
    THEN [ok |-> FALSE, reason |-> "expected key = value pair"]
    ELSE IF keys \ {"feature", "issue", "reason"} # {}
    THEN [ok |-> FALSE, reason |-> "unexpected argument"]
    ELSE IF {"feature", "issue", "reason"} \ keys # {}
    THEN [ok |-> FALSE, reason |-> "missing field"]
    ELSE [ok |-> TRUE, reason |-> "", feature |-> args[val("feature")].v[1]]

\* The calls of a function one after the other: the diagnostics of all of
\* them up to the first that does not return, which decides the outcome.
run_all(calls_) ==
    LET aborted == {x \in 1..Len(calls_) : calls_[x].st # "ret"}
        n == IF aborted = {} THEN Len(calls_)
             ELSE CHOOSE x \in aborted : \A y \in aborted : x <= y
    IN [st |-> IF aborted = {} THEN "ret" ELSE calls_[n].st,
        val |-> None,
        errs |-> FlatErrs(calls_, n)]
\* The keys of the map in the order the BTreeMap iterates them.
Keys(map) == SelectSeq(KindOrder, LAMBDA k : k \in DOMAIN map)

\* check_attributes, the body of the loop for one kind: its calls in order.
check_kind(self, kind) ==
    LET attrs == self.map[kind]
        each(call(_)) == [x \in 1..Len(attrs) |-> call(attrs[x])]
        no_args(span) == Ret_(None, expect_no_args(kind, self.attrs, span))
        solver(span) == parse_solver(self.attrs, span)
        unwind(span) == parse_unwind(self.attrs, span)
        unstable(span) ==
            LET r == UnstableAttribute_try_from(self.attrs, span) IN
            Ret_(None, IF r.ok THEN <<>>
                       ELSE <<Diag(span, <<"failed to parse #[kani::unstable]", r.reason>>)>>)
        clause(span) == IF self.attrs[span].form = "list" THEN Ret_(None, <<>>)
                        ELSE Abort_("panic", <<>>)
        single == <<Ret_(None, expect_single(kind, attrs))>>
        excludes(other) == <<IF other \in DOMAIN self.map THEN Abort_("panic", <<>>)
                             ELSE Ret_(None, <<>>)>>
        one == expect_maybe_one(self, kind)
    IN
    <<Ret_(None, IF ~is_harness(self) /\ is_harness_only(kind)
                 THEN <<Diag(attrs[1], <<"the", kind, "attribute also requires the #[kani::proof] attribute">>)>>
                 ELSE <<>>)>>
    \o CASE kind = "should_panic" -> single \o each(no_args)
         [] kind = "solver" -> single \o each(solver)
         [] kind = "stub" -> <<parse_stubs(self.attrs, attrs)>>
         [] kind = "unwind" -> single \o each(unwind)
         [] kind = "proof" -> excludes("proof_for_contract") \o single \o each(no_args)
         [] kind = "unstable" -> each(unstable)
         [] kind = "proof_for_contract" -> excludes("proof") \o single
         [] kind \in {"checked_with", "replaced_with", "memory_havoc_dummy"} ->
               <<one>> \o (IF one.val # None
                           THEN <<expect_key_string_value(self.attrs, one.val[1])>> ELSE <<>>)
         [] kind \in {"assigns", "frees"} -> each(clause)
         [] OTHER -> <<>>

\* KaniAttributes::check_attributes
check_attributes(self) ==
    LET keys == Keys(self.map)
        all == Concat([x \in 1..Len(keys) |-> check_kind(self, keys[x])])
    IN run_all(all)

\* KaniAttributes::check_unstable_features for an item that is a function.
check_unstable_features(self, enabled_features) ==
    LET keys == SelectSeq(Keys(self.map), is_function_contract_api)
        contracts ==
            IF "function-contracts" \in enabled_features THEN <<>>
            ELSE [x \in 1..Len(keys) |->
                    Ret_(None, <<Diag(self.map[keys[x]][1],
                                     <<"Using the", keys[x],
                                       "attribute requires activating the unstable function-contracts feature">>)>>)]
        unstable_attrs == IF "unstable" \in DOMAIN self.map THEN self.map["unstable"] ELSE <<>>
        unstable(span) ==
            LET r == UnstableAttribute_try_from(self.attrs, span) IN
            IF ~r.ok THEN Abort_("panic", <<>>)
            ELSE IF r.feature \notin enabled_features
            THEN Ret_(None, <<Diag(0, <<"Use of unstable feature", r.feature, self.item>>)>>)
            ELSE Ret_(None, <<>>)
        all == contracts \o [x \in 1..Len(unstable_attrs) |-> unstable(unstable_attrs[x])]
    IN run_all(all)

\* KaniAttributes::interpret_the_for_contract_attribute
interpret_the_for_contract_attribute(self) ==
    LET one == expect_maybe_one(self, "proof_for_contract") IN
    IF one.val = None THEN one
    ELSE LET name == expect_key_string_value(self.attrs, one.val[1]) IN
         IF name.st # "ret" THEN Abort_(name.st, one.errs \o name.errs)
         ELSE IF name.val[1] \notin Resolvable
         THEN Ret_(None, <<Diag(one.val[1], <<"Failed to resolve replacement function",
                                             Intersperse(name.val[1])>>)>>)
         ELSE Ret_(Some([name |-> name.val[1], span |-> one.val[1]]), <<>>)

\* The closure of use_contract for one stub_verified attribute: its target
\* when it resolves.
use_contract_one(attrs, span) ==
    LET name == expect_key_string_value(attrs, span) IN
    IF name.st # "ret" THEN Abort_(name.st, name.errs)
    ELSE IF name.val[1] \notin Resolvable
    THEN Ret_(<<>>, <<Diag(span, <<"Sould not resolve replacement function",
                                  Intersperse(name.val[1])>>)>>)
    ELSE Ret_(<<[name |-> name.val[1], span |-> span]>>, <<>>)
\* KaniAttributes::use_contract: the targets that resolve, in val.
use_contract(self) ==
    LET attr == IF "stub_verified" \in DOMAIN self.map THEN self.map["stub_verified"] ELSE <<>>
        each == [x \in 1..Len(attr) |-> use_contract_one(self.attrs, attr[x])]
        ran == run_all(each)
    IN IF ran.st # "ret" THEN ran ELSE Ret_(FlatVals(each), ran.errs)

\* `.checked_with()` and `.replaced_with()` of the target's attributes:
\* expect_maybe_one of the kind, then expect_key_string_value.
after_errs(errs, call) == [call EXCEPT !.errs = errs \o @]
marker_value(target, one) ==
    IF one.val = None THEN one
    ELSE after_errs(one.errs, expect_key_string_value(target.attrs, one.val[1]))
marker_read(target, kind, errs) ==
    after_errs(errs, marker_value(target, expect_maybe_one(target, kind)))
\* `KaniAttributes::for_item(self.tcx, id).checked_with()` and
\* `.replaced_with()`: the marker of the kind on the target.
marker_of(id, kind) ==
    marker_read(KaniAttributes(Intersperse(id), CrateAttrs(id),
                               fold_attributes(CrateAttrs(id), Len(CrateAttrs(id))).map),
                kind, fold_attributes(CrateAttrs(id), Len(CrateAttrs(id))).errs)

\* The closures that look the marker up: an error when there is none.
no_contract(replacement_name, span, msg) ==
    IF replacement_name.st = "ret" /\ replacement_name.val = None
    THEN Ret_(None, replacement_name.errs \o <<Diag(span, <<msg>>)>>)
    ELSE replacement_name
replacement_of(target, kind, msg) == no_contract(marker_of(target.name, kind), target.span, msg)

\* A stub path that is the generated name alone, the module path dropped.
replacement_path_unqualified(original, replace_str) == replace_str

\* The closure that makes the Stub: the path of the original with its last
\* segment replaced (rsplit_once("::")).
replacement_path(original, replace_str) == SubSeq(original, 1, Len(original) - 1) \o replace_str
resolved_stub(original, replacement) ==
    IF replacement \notin Resolvable THEN Abort_("panic", <<>>)
    ELSE Ret_(<<Stub(original, replacement)>>, <<>>)
to_stub(original, replace_str) == resolved_stub(original, replacement_path(original, replace_str))

\* One item of the chained iterator as `extend` consumes it: the marker is
\* looked up when the item is (stub_verified) or was before (the check
\* target, looked_up), then the Stub is made.
stub_of_found(target, found, looked_up) ==
    IF found.st # "ret" THEN IF looked_up THEN Ret_(<<>>, <<>>) ELSE found
    ELSE IF found.val = None THEN Ret_(<<>>, IF looked_up THEN <<>> ELSE found.errs)
    ELSE [to_stub(target.name, found.val[1]) EXCEPT !.errs = IF looked_up THEN <<>> ELSE found.errs]
contract_stub(target, kind, msg, looked_up) ==
    stub_of_found(target, replacement_of(target, kind, msg), looked_up)

\* harness_attributes, the arm of the fold for one kind.
harness_arm(self, kind) ==
    CASE kind = "solver" -> parse_solver(self.attrs, self.map[kind][1])
      [] kind = "stub" -> parse_stubs(self.attrs, self.map[kind])
      [] kind = "unwind" -> parse_unwind(self.attrs, self.map[kind][1])
      [] kind \in {"unstable", "checked_with", "is_contract_generated", "assigns",
                   "frees", "memory_havoc_dummy", "replaced_with"} -> Abort_("panic", <<>>)
      [] OTHER -> Ret_(None, <<>>)
\* harness_attributes, the fold over the map.
harness_fold(self, keys) ==
    <<IF is_harness(self) THEN Ret_(None, <<>>) ELSE Abort_("panic", <<>>)>>
    \o [x \in 1..Len(keys) |-> harness_arm(self, keys[x])]
\* harness_attributes, `attrs.stubs.extend(..)`: the chained iterator is
\* built (the check target and its marker, then use_contract) and consumed.
check_target_of(for_contract) ==
    IF for_contract.st = "ret" /\ for_contract.val # None THEN <<for_contract.val[1]>> ELSE <<>>
chained_stubs(check_target, used) ==
    [x \in 1..Len(check_target) |->
        contract_stub(check_target[x], "checked_with",
                      "Target function for this check has no contract", TRUE)]
    \o [x \in 1..Len(used) |->
        contract_stub(used[x], "replaced_with",
                      "The target item of this verified stubbing has no contract", FALSE)]
extend_calls(for_contract, check_target, verified, chained) ==
    <<for_contract>>
    \o [x \in 1..Len(check_target) |->
          replacement_of(check_target[x], "checked_with",
                         "Target function for this check has no contract")]
    \o <<verified>> \o chained
harness_result(harness_stubs, chained, ran) ==
    IF ran.st # "ret" THEN Abort_(ran.st, ran.errs)
    ELSE Ret_(harness_stubs \o FlatVals(chained), ran.errs)
harness_extend(self, for_contract, verified, chained) ==
    harness_result(IF "stub" \in DOMAIN self.map THEN harness_arm(self, "stub").val ELSE <<>>,
                   chained,
                   run_all(harness_fold(self, Keys(self.map))
                           \o extend_calls(for_contract, check_target_of(for_contract),
                                           verified, chained)))

\* KaniAttributes::harness_attributes of a local item: the stubs in val.
harness_attributes(self) ==
    harness_extend(self, interpret_the_for_contract_attribute(self), use_contract(self),
                   chained_stubs(check_target_of(interpret_the_for_contract_attribute(self)),
                                 IF use_contract(self).st = "ret" THEN use_contract(self).val
                                 ELSE <<>>))

\* The attributes an item is written with: for the kinds that take arguments
\* a well-formed one and one of the wrong count or form, an unknown name in
\* the namespace, an attribute outside it and a doc comment.
AttrPool ==
    {Word("proof"), List("proof", <<ArgWord(<<"x">>)>>),
     Word("should_panic"),
     List("solver", <<ArgWord(<<"kissat">>)>>), List("solver", <<>>),
     List("stub", <<ArgWord(<<"a">>), ArgWord(<<"b">>)>>), List("stub", <<ArgWord(<<"a">>)>>),
     List("unstable", <<ArgKV("feature", <<"f">>), ArgKV("issue", <<"1">>), ArgKV("reason", <<"r">>)>>),
     List("unwind", <<ArgLit("int", <<"3">>)>>), List("unwind", <<>>),
     List("assigns", <<ArgWord(<<"a">>)>>), List("frees", <<ArgWord(<<"a">>)>>),
     Eq("stub_verified", ArgLit("str", <<"U">>)), Eq("stub_verified", ArgLit("str", <<"V">>)),
     Eq("stub_verified", ArgLit("str", <<"X">>)),
     Eq("proof_for_contract", ArgLit("str", <<"m", "T">>)),
     Eq("proof_for_contract", ArgLit("str", <<"V">>)),
     Eq("checked_with", ArgLit("str", <<"w">>)), List("checked_with", <<>>),
     Eq("replaced_with", ArgLit("str", <<"r">>)), List("replaced_with", <<>>),
     Eq("memory_havoc_dummy", ArgLit("str", <<"d">>)),
     Eq("is_contract_generated", ArgLit("str", <<"check">>)),
     Attr(<<"kanitool", "prof">>, "word", <<>>), Attr(<<"inline">>, "word", <<>>), DocComment}
AttrLists == UNION {[1..n -> AttrPool] : n \in 0..MaxAttrs}
FeatureSets == {{}, {"function-contracts", "f"}}

InitAttrs ==
    /\ \E attrs \in AttrLists :
          sess = [phase |-> "attrs", item |-> "h", attrs |-> attrs, map |-> EmptyMap,
                  op |-> "none", st |-> "ret", diags |-> <<>>, features |-> {}, stubs |-> <<>>]
    /\ ExpandIdle /\ InjectIdle /\ LiftIdle /\ WrapperIdle /\ PlaceIdle /\ ContractIdle /\ DriverIdle

SessSelf == KaniAttributes(sess.item, sess.attrs, sess.map)

\* KaniAttributes::for_item
for_item ==
    /\ sess.phase = "attrs" /\ sess.op = "none"
    /\ LET folded == fold_attributes(sess.attrs, Len(sess.attrs)) IN
       sess' = [sess EXCEPT !.op = "for_item", !.map = folded.map, !.diags = folded.errs]
    /\ UNCHANGED <<items, last, inj, lift, REENTRY, stack, unwinding, calls, hist, parse, gcx, driver>>

\* check_attributes on the attributes for_item has read.
CheckAttributes ==
    /\ sess.phase = "attrs" /\ sess.op = "for_item"
    /\ LET r == check_attributes(SessSelf) IN
       sess' = [sess EXCEPT !.op = "check_attributes", !.st = r.st, !.diags = @ \o r.errs]
    /\ UNCHANGED <<items, last, inj, lift, REENTRY, stack, unwinding, calls, hist, parse, gcx, driver>>

\* check_unstable_features on the attributes for_item has read.
CheckUnstableFeatures(enabled_features) ==
    /\ sess.phase = "attrs" /\ sess.op = "for_item"
    /\ LET r == check_unstable_features(SessSelf, enabled_features) IN
       sess' = [sess EXCEPT !.op = "check_unstable_features", !.st = r.st,
                            !.diags = @ \o r.errs, !.features = enabled_features]
    /\ UNCHANGED <<items, last, inj, lift, REENTRY, stack, unwinding, calls, hist, parse, gcx, driver>>

\* harness_attributes of a harness whose attributes were checked without an
\* error (abort_if_errors has let the session go on).
HarnessAttributes ==
    /\ sess.phase = "attrs" /\ sess.op = "check_attributes"
    /\ sess.st = "ret" /\ sess.diags = <<>> /\ is_harness(SessSelf)
    /\ \E r \in {harness_attributes(SessSelf)} :
       sess' = [sess EXCEPT !.op = "harness_attributes", !.st = r.st, !.diags = @ \o r.errs,
                            !.stubs = IF r.st = "ret" THEN r.val ELSE <<>>]
    /\ UNCHANGED <<items, last, inj, lift, REENTRY, stack, unwinding, calls, hist, parse, gcx, driver>>

NextAttrs ==
    \/ for_item
    \/ CheckAttributes
    \/ \E enabled_features \in FeatureSets : CheckUnstableFeatures(enabled_features)
    \/ HarnessAttributes

SpecAttrs == InitAttrs /\ [][NextAttrs]_vars

\* --------------------------------------------------------- SpecInstrument
\* One run of a tool on the goto binary: the tool and its arguments, the
\* file it reads and the file it writes.
Run(tool, args, input, output) == [tool |-> tool, args |-> args, input |-> input, output |-> output]
\* KaniSession::call_goto_instrument
call_goto_instrument(args, input, output) == Run("goto-instrument", args, input, output)
\* The goto binary that instrument_model instruments in place.
OutputFile == "output"
\* The run of KaniSession::apply_vtable_restrictions
apply_vtable_restrictions ==
    call_goto_instrument(<<"--function-pointer-restrictions-file">>, OutputFile, OutputFile)
\* The run of KaniSession::goto_sanity_check
goto_sanity_check == call_goto_instrument(<<"--validate-goto-model">>, OutputFile, OutputFile)
\* The run of KaniSession::add_library
add_library == call_goto_instrument(<<"--add-library">>, OutputFile, OutputFile)
\* The run of KaniSession::undefined_functions
undefined_functions ==
    call_goto_instrument(<<"--generate-function-body-options", "--generate-function-body",
                           "--drop-unused-functions">>, OutputFile, OutputFile)
\* The run of KaniSession::just_drop_unused_functions
just_drop_unused_functions ==
    call_goto_instrument(<<"--drop-unused-functions">>, OutputFile, OutputFile)
\* The run of KaniSession::rewrite_back_edges
rewrite_back_edges ==
    call_goto_instrument(<<"--ensure-one-backedge-per-target">>, OutputFile, OutputFile)
\* The run of KaniSession::gen_c
gen_c == call_goto_instrument(<<"--dump-c">>, OutputFile, "c_outfile")
\* The run of KaniSession::instrument_contracts, none when there is no
\* contract to check or to use.
instrument_contracts(check_contract, replace_contracts, use_dfcc) ==
    IF check_contract = None /\ replace_contracts = <<>> THEN <<>>
    ELSE <<call_goto_instrument(
             (IF use_dfcc THEN <<"--dfcc">> ELSE <<>>)
             \o (IF check_contract # None
                 THEN <<"--enforce-contract">>
                      \o (IF use_dfcc THEN <<"--nondet-static-exclude">> ELSE <<>>)
                 ELSE <<>>)
             \o [x \in 1..Len(replace_contracts) |-> "--replace-call-with-contract"],
             OutputFile, OutputFile)>>

SessionArgs == [run_sanity_checks : BOOLEAN, undefined_function_on : BOOLEAN, gen_c : BOOLEAN]
ContractInfos == [check_contract : {None, Some("T")}, replace_contracts : {<<>>, <<"U">>}]

InitInstrument ==
    /\ \E args \in SessionArgs, restrictions \in BOOLEAN, contract_info \in ContractInfos,
          use_dfcc \in BOOLEAN :
          driver = [phase |-> "instrument", pc |-> "specialize", args |-> args,
                    restrictions |-> restrictions, contract_info |-> contract_info,
                    use_dfcc |-> use_dfcc, runs |-> <<>>, result |-> "running"]
    /\ ExpandIdle /\ InjectIdle /\ LiftIdle /\ WrapperIdle /\ PlaceIdle /\ ContractIdle /\ AttrsIdle

At(pc) == driver.phase = "instrument" /\ driver.result = "running" /\ driver.pc = pc
\* The statement at the position runs the tools and, with `?`, goes on to
\* the next position when the last of them succeeded and returns the error
\* otherwise.
Question(runs, ok, next) ==
    driver' = [driver EXCEPT !.runs = @ \o runs,
                             !.pc = IF ok THEN next ELSE @,
                             !.result = IF ok THEN @ ELSE "Err"]

\* self.specialize_to_proof_harness(input, output, &harness.mangled_name)?
SpecializeToProofHarness(ok) ==
    /\ At("specialize")
    /\ Question(<<Run("goto-cc", <<"--function">>, "input", OutputFile)>>, ok, "restrictions")
    /\ UNCHANGED <<sess, items, last, inj, lift, REENTRY, stack, unwinding, calls, hist, parse, gcx>>

\* if let Some(restrictions_path) = restrictions { self.apply_vtable_restrictions(..)? }
ApplyVtableRestrictions(ok) ==
    /\ At("restrictions")
    /\ IF driver.restrictions
       THEN Question(<<apply_vtable_restrictions>>, ok, "sanity")
       ELSE ok /\ Question(<<>>, TRUE, "sanity")
    /\ UNCHANGED <<sess, items, last, inj, lift, REENTRY, stack, unwinding, calls, hist, parse, gcx>>

\* if self.args.run_sanity_checks { self.goto_sanity_check(output)? }
GotoSanityCheck(ok) ==
    /\ At("sanity")
    /\ IF driver.args.run_sanity_checks
       THEN Question(<<goto_sanity_check>>, ok, "contracts")
       ELSE ok /\ Question(<<>>, TRUE, "contracts")
    /\ UNCHANGED <<sess, items, last, inj, lift, REENTRY, stack, unwinding, calls, hist, parse, gcx>>

\* self.instrument_contracts(harness, output, contract_info)?
InstrumentContracts(ok) ==
    /\ At("contracts")
    /\ \E runs \in {instrument_contracts(driver.contract_info.check_contract,
                                          driver.contract_info.replace_contracts,
                                          driver.use_dfcc)} :
          /\ runs = <<>> => ok
          /\ Question(runs, ok, "functions")
    /\ UNCHANGED <<sess, items, last, inj, lift, REENTRY, stack, unwinding, calls, hist, parse, gcx>>

\* The undefined_function_on branch: add_library(output)? and then
\* undefined_functions(output)?
UndefinedFunctions(ok_library, ok) ==
    /\ At("functions") /\ driver.args.undefined_function_on
    /\ IF ok_library
       THEN Question(<<add_library, undefined_functions>>, ok, "back_edges")
       ELSE ok /\ Question(<<add_library>>, FALSE, "back_edges")
    /\ UNCHANGED <<sess, items, last, inj, lift, REENTRY, stack, unwinding, calls, hist, parse, gcx>>

\* The else branch: self.just_drop_unused_functions(output)?
JustDropUnusedFunctions(ok) ==
    /\ At("functions") /\ ~driver.args.undefined_function_on
    /\ Question(<<just_drop_unused_functions>>, ok, "back_edges")
    /\ UNCHANGED <<sess, items, last, inj, lift, REENTRY, stack, unwinding, calls, hist, parse, gcx>>

\* self.rewrite_back_edges(output)?
RewriteBackEdges(ok) ==
    /\ At("back_edges")
    /\ Question(<<rewrite_back_edges>>, ok, "gen_c")
    /\ UNCHANGED <<sess, items, last, inj, lift, REENTRY, stack, unwinding, calls, hist, parse, gcx>>

\* if self.args.gen_c { self.gen_c(output, &c_outfile)?; self.demangle_c(..)? }
\* and Ok(()). demangle_c runs no tool.
GenC(ok_gen_c, ok) ==
    /\ At("gen_c")
    /\ IF driver.args.gen_c
       THEN IF ok_gen_c THEN Question(<<gen_c>>, ok, "end") ELSE ok /\ Question(<<gen_c>>, FALSE, "end")
       ELSE ok_gen_c /\ ok /\ Question(<<>>, TRUE, "end")
    /\ UNCHANGED <<sess, items, last, inj, lift, REENTRY, stack, unwinding, calls, hist, parse, gcx>>

\* Ok(())
InstrumentModelReturns ==
    /\ At("end")
    /\ driver' = [driver EXCEPT !.result = "Ok"]
    /\ UNCHANGED <<sess, items, last, inj, lift, REENTRY, stack, unwinding, calls, hist, parse, gcx>>

NextInstrument ==
    \/ \E ok \in BOOLEAN : SpecializeToProofHarness(ok)
    \/ \E ok \in BOOLEAN : ApplyVtableRestrictions(ok)
    \/ \E ok \in BOOLEAN : GotoSanityCheck(ok)
    \/ \E ok \in BOOLEAN : InstrumentContracts(ok)
    \/ \E ok_library, ok \in BOOLEAN : UndefinedFunctions(ok_library, ok)
    \/ \E ok \in BOOLEAN : JustDropUnusedFunctions(ok)
    \/ \E ok \in BOOLEAN : RewriteBackEdges(ok)
    \/ \E ok_gen_c, ok \in BOOLEAN : GenC(ok_gen_c, ok)
    \/ InstrumentModelReturns

SpecInstrument == InitInstrument /\ [][NextInstrument]_vars

\* ------------------------------------------------------ claims on SpecExpand
ItemIndices == 1..Len(items)
FullyExpanded == \A i \in ItemIndices : ~HasAnnotation(items[i])
Purposes == {items[i].ident[2] : i \in ItemIndices}
PurposeCount(p) == Cardinality({i \in ItemIndices : items[i].ident[2] = p})
IsFrozenOriginal(item) == function_state_of(item) = "Original" /\ item.ident = OriginalIdent
\* The function started Untouched and at least one annotation has been expanded.
ExpandedFromUntouched == last.state # "None" /\ Len(items) > 1

\* C1: for a function that starts Untouched with a stack of n >= 1 annotations,
\* from the first expansion on, and so once every annotation has been expanded,
\* the output holds exactly the original plus one check, one replace, one
\* replace-dummy and one recursion-wrapper function, pairwise distinct in name;
\* later annotations add no sibling and no duplicate.
C1_FourSiblingsPlusOriginal ==
    ExpandedFromUntouched =>
        /\ Len(items) = 5
        /\ Purposes = {"", "check", "replace", "replace_dummy", "recursion_wrapper"}
        /\ \A p \in Purposes : PurposeCount(p) = 1
        /\ \A i, j \in ItemIndices : i # j => items[i].ident # items[j].ident
        /\ \E i \in ItemIndices : IsFrozenOriginal(items[i])
        /\ \A i \in ItemIndices :
              /\ items[i].ident[2] = "check" => function_state_of(items[i]) = "Check"
              /\ items[i].ident[2] = "replace" => function_state_of(items[i]) = "Replace"

\* C1 witness: a stack of at least two annotations fully expanded from Untouched.
C1_Witness == ExpandedFromUntouched /\ FullyExpanded /\ last.ann.id >= 2

OutputIdents == {last.output[i].ident : i \in 1..Len(last.output)}

\* C2: what one expansion emits is decided by the function's state: Original and
\* ReplaceDummy return the item unchanged and emit nothing new; Check emits one
\* check function of the same identifier with one more layer; Replace emits one
\* replace function of the same identifier with one more layer; only Untouched
\* creates new sibling identifiers.
C2_EmissionByState ==
    /\ last.state \in {"Original", "ReplaceDummy"} => last.output = <<last.input>>
    /\ last.state \in {"Check", "Replace"} =>
          /\ Len(last.output) = 1
          /\ last.output[1].ident = last.input.ident
          /\ function_state_of(last.output[1]) = last.state
          /\ last.output[1].attrs = last.input.attrs
          /\ last.ann.id \notin LayerIds(last.input.body)
          /\ LayerIds(last.output[1].body) = LayerIds(last.input.body) \cup {last.ann.id}
    /\ last.state \in {"Original", "ReplaceDummy", "Check", "Replace"} =>
          OutputIdents = {last.input.ident}
    /\ last.state = "Untouched" =>
          /\ last.input.ident \in OutputIdents
          /\ Cardinality(OutputIdents \ {last.input.ident}) = 4

\* C2 witness: each of the five states has been the state of an expansion.
C2_Witness == last.state = "Check" /\ last.ann.id >= 2 /\ last.ann.k = "ensures"
C2_WitnessReplaceDummy == last.state = "ReplaceDummy"

\* The statements of kind `kind` (assume/assert) in the body of item `it`.
GuardsOf(it, kind) ==
    LET ns == NodeSeq(it.body) IN {ns[i].c : i \in {j \in 1..Len(ns) : ns[j].k = kind}}
LastEmitted(state) ==
    {last.output[i] : i \in {j \in 1..Len(last.output) :
                                function_state_of(last.output[j]) = state}}

\* C3: the check variant assumes every expanded requires clause and asserts
\* every expanded ensures clause, the replace variant asserts every requires and
\* assumes every ensures; no check layer asserts a precondition or assumes a
\* postcondition and no replace layer assumes a precondition or asserts a
\* postcondition.
C3_AssumeAssertDuality ==
    /\ \A i \in ItemIndices :
          /\ function_state_of(items[i]) = "Check" =>
                /\ \A c \in GuardsOf(items[i], "assume") : c.kind = "requires"
                /\ \A c \in GuardsOf(items[i], "assert") : c.kind = "ensures"
          /\ function_state_of(items[i]) = "Replace" =>
                /\ \A c \in GuardsOf(items[i], "assert") : c.kind = "requires"
                /\ \A c \in GuardsOf(items[i], "assume") : c.kind = "ensures"
    /\ last.state \in {"Untouched", "Check", "Replace"} =>
          LET c == [id |-> last.ann.id, kind |-> last.ann.k] IN
          /\ \A it \in LastEmitted("Check") :
                c \in GuardsOf(it, IF c.kind = "requires" THEN "assume" ELSE "assert")
          /\ \A it \in LastEmitted("Replace") :
                c \in GuardsOf(it, IF c.kind = "requires" THEN "assert" ELSE "assume")
          /\ last.state = "Untouched" =>
                LastEmitted("Check") # {} /\ LastEmitted("Replace") # {}

\* C3 witness: a check and a replace variant that each carry a requires and an
\* ensures layer.
C3_Witness ==
    /\ \E i \in ItemIndices :
          /\ function_state_of(items[i]) = "Check"
          /\ GuardsOf(items[i], "assume") # {} /\ GuardsOf(items[i], "assert") # {}
    /\ \E i \in ItemIndices :
          /\ function_state_of(items[i]) = "Replace"
          /\ GuardsOf(items[i], "assume") # {} /\ GuardsOf(items[i], "assert") # {}

\* ----------------------------------------------------- claims on SpecWrapper
FramesOf(fn) == {i \in 1..Len(stack) : stack[i].fn = fn}

\* C4: a wrapper invocation entered with the flag clear sets the flag and calls
\* the check variant, and when the check variant returns it clears the flag
\* and returns the check variant's result; entered with the flag set it calls
\* the replace variant, leaves the flag as it is and returns the replace
\* variant's result.  While no check invocation has unwound, the flag is clear
\* whenever the harness is between calls.
C4_Step ==
    /\ hist'.op = "dispatch" =>
          /\ ~REENTRY => /\ REENTRY' /\ hist'.branch = "check"
                         /\ stack'[Len(stack')].fn = "check"
          /\ REENTRY => /\ REENTRY' /\ hist'.branch = "replace"
                        /\ stack'[Len(stack')].fn = "replace"
          /\ Len(stack') = Len(stack) + 1
    /\ hist'.op = "wrapper_return" =>
          /\ hist'.branch = "check" =>
                /\ hist.op = "check_return" /\ hist'.val = hist.val
                /\ ~REENTRY'
          /\ hist'.branch = "replace" =>
                /\ hist.op = "replace_return" /\ hist'.val = hist.val
                /\ REENTRY' = REENTRY
    /\ (~hist'.leaked /\ stack' = <<>>) => ~REENTRY'
\* C4, over every step: the wrapper dispatches on its flag as stated above.
C4_WrapperDispatch == [][C4_Step]_vars

\* C4 witness: the wrapper invocation of the harness's second call has returned
\* the check variant's result with the flag clear: the first call left the
\* flag clear, so the second entered the check variant again.
C4_Witness ==
    /\ hist.op = "wrapper_return" /\ hist.branch = "check" /\ hist.val \in Values
    /\ stack = <<>> /\ ~REENTRY /\ calls = 2

\* C5: no two invocations of the check variant are on the stack at once, a
\* wrapper invocation made while the check variant runs goes to the replace
\* variant, the replace variant calls only the dummy, at most two wrapper
\* invocations are nested, and a call made by the harness ends.
C5_Bounded ==
    /\ Cardinality(FramesOf("check")) <= 1
    /\ Cardinality(FramesOf("wrapper")) <= 2
    /\ \A i \in FramesOf("wrapper") :
          (\E j \in FramesOf("check") : j < i) /\ stack[i].pc # "entry" =>
              stack[i].branch = "replace"
    /\ \A i \in FramesOf("replace") :
          i < Len(stack) => stack[i + 1].fn = "dummy" /\ i + 1 = Len(stack)
\* C5, over every behaviour: the check variant is never re-entered, the nesting
\* through the wrapper stays bounded, and every call of the harness ends.
C5_NoCheckReentry == [](C5_Bounded) /\ [](stack # <<>> ~> stack = <<>>)

\* C5 witness: the check variant is running and a call it made was answered
\* by the replace variant through the dummy.
C5_Witness ==
    /\ Len(stack) = 5 /\ stack[2].fn = "check" /\ stack[4].fn = "replace"
    /\ stack[5].fn = "dummy" /\ stack[2].n = 2

\* C6: once a check invocation has unwound through the wrapper the flag is set
\* and stays set, and every wrapper invocation dispatches to the replace variant.
C6_FlagLeakedOnUnwind ==
    hist.leaked =>
        /\ REENTRY
        /\ FramesOf("check") = {}
        /\ \A i \in FramesOf("wrapper") : stack[i].pc # "entry" => stack[i].branch = "replace"

\* C6 witness: after the unwinding the harness called again and the wrapper
\* took the replace branch.
C6_Witness ==
    /\ hist.leaked /\ ~unwinding /\ hist.op = "dispatch" /\ hist.branch = "replace"
    /\ Len(stack) = 2 /\ calls = 2

\* ------------------------------------------------------ claims on SpecInject
\* The enforcement code of the clause, as the events it executes.
EnforcementEvents == [i \in 1..Len(inj.tokens) |-> Event(inj.tokens[i].k, inj.tokens[i].c)]
EndsWith(tr, suffix) ==
    /\ Len(tr) >= Len(suffix)
    /\ SubSeq(tr, Len(tr) - Len(suffix) + 1, Len(tr)) = suffix
\* The path's last step is the exit; the enforcement code ran right before it.
EnforcedBeforeExit(p) ==
    IF p.ex = "fall" THEN EndsWith(p.tr, EnforcementEvents)
    ELSE Len(p.tr) >= 1 /\ EndsWith(SubSeq(p.tr, 1, Len(p.tr) - 1), EnforcementEvents)

\* C7: in the check variant of an ensures clause every execution path that
\* leaves the function, through an early exit or by falling through, has run
\* the enforcement code immediately before leaving.
C7_EnforcedOnEveryExit ==
    inj.phase = "out" =>
        \A p \in Paths(inj.check) : p.ex \in {"ret", "fall"} => EnforcedBeforeExit(p)

\* What the injector is to produce: the returns of the function itself are
\* rewritten, the operand of a return included; closures and nested fn items,
\* whose returns belong to another function, stay as they are.
RECURSIVE OwnReturnsRewritten(_, _)
OwnReturnsRewritten(tokens, i) ==
    CASE i.k = "ret" ->
            IF i.e # None
            THEN Block(<<Let(ResultIdent, OwnReturnsRewritten(tokens, i.e[1]))>>
                       \o tokens \o <<Ret(PathExpr(ResultIdent))>>)
            ELSE Block(tokens \o <<Ret0>>)
      [] i.k \in {"closure", "fnitem"} -> i
      [] i.k = "try" -> Try(OwnReturnsRewritten(tokens, i.e))
      [] i.k = "if" -> If(OwnReturnsRewritten(tokens, i.t), OwnReturnsRewritten(tokens, i.f))
      [] i.k = "block" -> Block([j \in 1..Len(i.s) |-> OwnReturnsRewritten(tokens, i.s[j])])
      [] i.k = "let" -> Let(i.v, OwnReturnsRewritten(tokens, i.e))
      [] OTHER -> i

\* C8: the injector's output is the body with exactly the function's own
\* returns rewritten to `{ let result = <operand>; <enforcement>; return result }`
\* (a return in a return's operand too) and every return of a nested closure
\* left as written.
C8_RewritesOwnReturnsOnly ==
    inj.phase = "out" => inj.out = OwnReturnsRewritten(inj.tokens, Block(<<inj.body>>))

\* ------------------------------------------------------ claims on SpecExpand
EnsuresLayers(it) ==
    {c \in GuardsOf(it, "assert") \cup GuardsOf(it, "assume") : c.kind = "ensures"}
OldsPrecedeCall(tr) ==
    \A a, b \in 1..Len(tr) : tr[a].ev = "old" /\ IsGuardedCallEvent(tr[b]) => a < b

\* C9: on every execution path of a check or replace variant each ensures
\* layer executes its one old-value binding, and every old-value binding is
\* executed before the first step of the guarded call (the original body or
\* the call of the dummy), whatever the number of layers.
C9_OldBeforeGuardedCall ==
    \A i \in ItemIndices :
        function_state_of(items[i]) \in {"Check", "Replace"} =>
            \A p \in Paths(items[i].body) :
                /\ OldsPrecedeCall(p.tr)
                /\ \A c \in EnsuresLayers(items[i]) :
                      Cardinality(EventsAt(p.tr, "old", c)) = 1

\* C9 witness: a check variant with two ensures layers whose body mutates, and
\* a replace variant with two ensures layers around the call of the dummy.
C9_Witness ==
    /\ \E i \in ItemIndices :
          /\ function_state_of(items[i]) = "Check"
          /\ Cardinality(EnsuresLayers(items[i])) >= 2
          /\ \E p \in Paths(items[i].body) : \E b \in 1..Len(p.tr) : p.tr[b].ev = "mut"
    /\ \E i \in ItemIndices :
          /\ function_state_of(items[i]) = "Replace"
          /\ Cardinality(EnsuresLayers(items[i])) >= 2
          /\ \E p \in Paths(items[i].body) : \E b \in 1..Len(p.tr) : p.tr[b].ev = "call"

\* -------------------------------------------------------- claims on SpecLift
\* The `old` markers of a clause: <<position, number of markers around it>>.
RECURSIVE Markers(_, _, _)
Markers(ex, pos, depth) ==
    CASE ex.k = "old" -> {<<pos, depth>>} \cup Markers(ex.a, pos \o <<1>>, depth + 1)
      [] ex.k = "bin" -> Markers(ex.l, pos \o <<1>>, depth) \cup Markers(ex.r, pos \o <<2>>, depth)
      [] OTHER -> {}
RECURSIVE SubExpr(_, _)
SubExpr(ex, pos) ==
    IF pos = <<>> THEN ex
    ELSE IF ex.k = "old" THEN SubExpr(ex.a, Tail(pos))
    ELSE IF Head(pos) = 1 THEN SubExpr(ex.l, Tail(pos)) ELSE SubExpr(ex.r, Tail(pos))

\* C10: when a marker lies in the argument of another marker the lifter
\* reports a nesting error, every error is reported at a marker that lies
\* directly in the argument of an outermost marker and every such marker is
\* reported; bindings are made for the outermost markers only, each binding
\* the argument as written, nested marker included.  Without nesting nothing
\* is reported.
C10_NestedOldDenied ==
    lift.phase = "out" =>
        LET M == Markers(lift.attr, <<>>, 0)
            res == lift.res
        IN /\ (\E m \in M : m[2] >= 1) <=> res.diags # <<>>
           /\ \A i \in 1..Len(res.diags) : <<res.diags[i], 1>> \in M
           /\ \A m \in M : m[2] = 1 => \E i \in 1..Len(res.diags) : res.diags[i] = m[1]
           /\ Len(res.old_vars) = Cardinality({m \in M : m[2] = 0})
           /\ Len(res.old_exprs) = Len(res.old_vars)
           /\ \A m \in M : m[2] = 0 =>
                 \E i \in 1..Len(res.old_exprs) :
                     res.old_exprs[i] = SubExpr(lift.attr, m[1] \o <<1>>)

\* C10 witness: a clause such as `old(old(p)) == q`, lifted with one error and
\* one binding, whose bound expression still holds the inner marker.
C10_Witness ==
    /\ lift.phase = "out" /\ lift.attr.k = "bin"
    /\ Len(lift.res.diags) = 1 /\ Len(lift.res.old_vars) = 1
    /\ lift.res.old_exprs[1].k = "old"

\* The outermost markers of a clause, in source order (by position).
RECURSIVE MarkerSeq(_, _)
MarkerSeq(ex, pos) ==
    CASE ex.k = "old" -> <<pos>>
      [] ex.k = "bin" -> MarkerSeq(ex.l, pos \o <<1>>) \o MarkerSeq(ex.r, pos \o <<2>>)
      [] OTHER -> <<>>

\* C11: a postcondition with k markers, none nested, is lifted to a table of
\* exactly k entries in source order: the i-th marker's place holds a reference
\* to the i-th fresh identifier, the i-th entry pairs that identifier with the
\* marker's argument as written, and the k identifiers differ pairwise.
C11_TableInSourceOrder ==
    (lift.phase = "out" /\ lift.res.diags = <<>>) =>
        LET S == MarkerSeq(lift.attr, <<>>)
            res == lift.res
        IN /\ Len(res.old_vars) = Len(S) /\ Len(res.old_exprs) = Len(S)
           /\ \A i \in 1..Len(S) :
                 /\ SubExpr(res.attr, S[i]) = Var(res.old_vars[i])
                 /\ res.old_exprs[i] = SubExpr(lift.attr, S[i] \o <<1>>)
           /\ \A i, j \in 1..Len(S) : i # j => res.old_vars[i] # res.old_vars[j]

\* C11 witness: `old(p) == old(q)`, two markers lifted to two bindings.
C11_Witness ==
    /\ lift.phase = "out" /\ lift.res.diags = <<>>
    /\ Len(lift.res.old_vars) = 2
    /\ lift.res.old_exprs[1] # lift.res.old_exprs[2]

\* ------------------------------------------------------ claims on SpecExpand
\* Layer c's copies on a path: taken after c's old-value binding and before the
\* guarded call, next to each other.
CopiesBeforeCall(tr, c) ==
    LET cp == EventsAt(tr, "copy", c) IN
    /\ \A a \in cp, b \in 1..Len(tr) :
          /\ (tr[b].ev = "old" /\ tr[b].c = c) => b < a
          /\ IsGuardedCallEvent(tr[b]) => a < b
    /\ \A a, b \in cp : \A m \in a..b : m \in cp
\* Layer c's copies on a path are each forgotten, after c's postcondition.
CopiesLeaked(tr, c) ==
    /\ Cardinality(EventsAt(tr, "forget", c)) = Cardinality(EventsAt(tr, "copy", c))
    /\ \A a \in EventsAt(tr, "forget", c) :
          \E b \in EventsAt(tr, "assert", c) \cup EventsAt(tr, "assume", c) : b < a

\* C12: in every generated function that copies the parameters for an ensures
\* layer, on every path that leaves the function, the layer's copies are taken
\* right before the guarded call and every one of them is forgotten after the
\* layer's postcondition has been evaluated.
C12_CopiesTakenThenLeaked ==
    \A i \in ItemIndices :
        \A p \in Paths(items[i].body) :
            \A c \in EnsuresLayers(items[i]) :
                (p.ex \in {"ret", "fall"} /\ EventsAt(p.tr, "copy", c) # {}) =>
                    CopiesBeforeCall(p.tr, c) /\ CopiesLeaked(p.tr, c)

\* The calls a generated item makes to the dummy, the check variant and the
\* replace variant.
CallsOf(it) ==
    LET ns == NodeSeq(it.body) IN
    {ns[i] : i \in {j \in 1..Len(ns) : ns[j].k = "call"}}
    \cup UNION {{ns[i].replace, ns[i].check} : i \in {j \in 1..Len(ns) : ns[j].k = "reentry"}}
GuardPrecedesCall(tr, ev, c) ==
    /\ EventsAt(tr, ev, c) # {}
    /\ \A a \in EventsAt(tr, ev, c), b \in 1..Len(tr) : IsGuardedCallEvent(tr[b]) => a < b

\* C13: on every path of a check variant each precondition is assumed before
\* the original body starts, on every path of a replace variant each
\* precondition is asserted before the dummy is called, and every call the
\* generated items make to the dummy, the check variant or the replace variant
\* passes the parameters themselves, one per parameter in declared order.
C13_PreconditionFirstArgsInOrder ==
    \A i \in ItemIndices :
        /\ function_state_of(items[i]) = "Check" =>
              \A p \in Paths(items[i].body) :
                  \A c \in GuardsOf(items[i], "assume") : GuardPrecedesCall(p.tr, "assume", c)
        /\ function_state_of(items[i]) = "Replace" =>
              \A p \in Paths(items[i].body) :
                  \A c \in GuardsOf(items[i], "assert") : GuardPrecedesCall(p.tr, "assert", c)
        /\ \A call \in CallsOf(items[i]) :
              /\ Len(call.args) = Len(items[i].inputs)
              /\ \A j \in 1..Len(call.args) : call.args[j] = PathExpr(items[i].inputs[j])

\* C13 witness: a replace variant that asserts a precondition and then calls
\* the dummy with (p, q), next to a check variant that assumes one and a
\* wrapper that calls both.
C13_Witness ==
    /\ \E i \in ItemIndices :
          /\ function_state_of(items[i]) = "Replace"
          /\ GuardsOf(items[i], "assert") # {}
          /\ \E call \in CallsOf(items[i]) :
                call.f[2] = "replace_dummy" /\ call.args = <<PathExpr(Params[1]), PathExpr(Params[2])>>
    /\ \E i \in ItemIndices :
          function_state_of(items[i]) = "Check" /\ GuardsOf(items[i], "assume") # {}
    /\ \E i \in ItemIndices : \E call \in CallsOf(items[i]) : call.f[2] = "check"

\* The annotations an expansion of the same item could have been made for
\* instead: the other kind, another clause, another position.
AlternativeAnnotations ==
    {Requires(1, RequiresAttr), Ensures(2, EnsuresAttr), Requires(3, Var(Ident("p"))),
     Ensures(1, Var(ResultIdent))}
GeneratedPurposes == {"check", "replace", "replace_dummy", "recursion_wrapper"}
IdentsOf(out) == {out[i].ident : i \in 1..Len(out)}

\* C14: the names an expansion of an Untouched function generates are fixed by
\* the function's name, the purpose and the tokens of the item alone: the
\* output holds, next to the original, exactly one name per purpose, each the
\* triple (name of the item, purpose, h) with one hash h for all four, and
\* expanding the same item for any other annotation (other kind, clause or
\* position) yields the same set of names.
C14_NamesFromItemOnly ==
    last.state = "Untouched" =>
        LET names == IdentsOf(last.output) \ {last.input.ident} IN
        /\ \E n \in names :
              /\ n[3] \in 0..(HashModulus - 1)
              /\ names = {<<last.input.ident[1], p, n[3]>> : p \in GeneratedPurposes}
        /\ Cardinality(names) = Cardinality(GeneratedPurposes)
        /\ \A ann \in AlternativeAnnotations :
              IdentsOf(requires_ensures_alt(ann, last.input)) = IdentsOf(last.output)

\* C14 witness: an Untouched function has been expanded for an annotation that
\* is not among the alternatives compared with, and its output names a check
\* function after the item.
C14_Witness ==
    /\ last.state = "Untouched"
    /\ last.ann \notin AlternativeAnnotations
    /\ \E n \in IdentsOf(last.output) : n[2] = "check" /\ n[1] = last.input.ident[1]

\* ------------------------------------------------------- claims on SpecPlace
\* Where the entry after the one starting at `from` starts: right after the
\* first comma at or after `from`, or at the end of the clause.
CommasFrom(from) == {c \in from..Len(parse.clause) : parse.clause[c].k = "comma"}
NextEntryStart(from) ==
    IF CommasFrom(from) = {} THEN Len(parse.clause) + 1
    ELSE (CHOOSE c \in CommasFrom(from) : \A d \in CommasFrom(from) : c <= d) + 1
\* Where the k-th entry of the clause starts.
RECURSIVE EntryStart(_)
EntryStart(k) == IF k = 1 THEN 1 ELSE EntryStart(k - 1) + Len(parse.entries[k - 1]) + 1
EntryIndices == 1..Len(parse.entries)
Parsing == parse.status # "idle"
ParseFailed == parse.status \in {"fatal", "panic"} \/ parse.diags # <<>>
HasDiag(d) == \E x \in 1..Len(parse.diags) : parse.diags[x] = d

\* C15: whenever a call of parse_place has returned, the cursor is where the
\* next entry starts: directly after the first comma at or after the position
\* the call started from, or at the end of the clause when no comma follows.
C15_CursorAfterEntry ==
    (Parsing /\ parse.call.st = "ret") => parse.cursor = NextEntryStart(parse.call.from)

\* The places and ranges the well-formed entries of the model denote.
SelfPlace == PlaceFrom(1)
APlace == PlaceFrom(2)
IPlace == PlaceFrom(3)
FieldIndex(f) == CHOOSE x \in 1..3 : <<"ptr", "len", "cap">>[x] = f
FieldOf(place, f) ==
    [place EXCEPT !.projection = @ \o <<Field(FieldIndex(f), Fields("Arr")[FieldIndex(f)].ty)>>]
DerefOf(place) == [place EXCEPT !.projection = @ \o <<Deref>>]
Denotations ==
    {[entry |-> EntryDerefField(f), range |-> AssignsRange(FieldOf(DerefOf(SelfPlace), f), None)]
        : f \in {"ptr", "len", "cap"}}
    \cup {[entry |-> <<Token("star"), IdentSelf>>, range |-> AssignsRange(DerefOf(SelfPlace), None)],
          [entry |-> <<TIdent("a"), Token("dot"), TIdent("len")>>,
           range |-> AssignsRange(FieldOf(APlace, "len"), None)],
          [entry |-> EntrySlice(<<TIdent("a")>>, <<>>, <<>>),
           range |-> AssignsRange(APlace, Some(<<None, None>>))],
          [entry |-> EntrySlice(<<TIdent("a")>>, <<TIdent("i")>>, <<>>),
           range |-> AssignsRange(APlace, Some(<<Some(IPlace), None>>))],
          [entry |-> EntrySlice(<<TIdent("a")>>, <<>>, <<TIdent("i")>>),
           range |-> AssignsRange(APlace, Some(<<None, Some(IPlace)>>))],
          [entry |-> EntrySlice(<<TIdent("a")>>, <<TIdent("i")>>, <<TIdent("i")>>),
           range |-> AssignsRange(APlace, Some(<<Some(IPlace), Some(IPlace)>>))],
          [entry |-> EntrySlice(<<TIdent("a"), Token("dot"), TIdent("ptr")>>, <<TIdent("i")>>, <<>>),
           range |-> AssignsRange(FieldOf(APlace, "ptr"), Some(<<Some(IPlace), None>>))]}
WellFormedEntries == {d.entry : d \in Denotations}
Denotation(e) == (CHOOSE d \in Denotations : d.entry = e).range

\* C16: an assigns clause of n well-formed entries parses without an error
\* into exactly n ranges, the i-th being the range the i-th entry denotes.
C16_OneRangePerEntry ==
    (Parsing /\ parse.kind = "assigns"
       /\ \A k \in EntryIndices : parse.entries[k] \in WellFormedEntries) =>
        /\ ~ParseFailed
        /\ Len(parse.out) <= Len(parse.entries)
        /\ \A k \in 1..Len(parse.out) : parse.out[k] = Denotation(parse.entries[k])
        /\ parse.status = "done" => Len(parse.out) = Len(parse.entries)

\* The entries that end in a slice suffix, with what is written in it.
IsSliceEntry(e) ==
    /\ e[Len(e)].k = "bracket"
    /\ \E x \in 1..Len(e[Len(e)].inner) : e[Len(e)].inner[x].k = "dotdot"
SliceInner(e) == e[Len(e)].inner
DotDotAt(e) == CHOOSE x \in 1..Len(SliceInner(e)) : SliceInner(e)[x].k = "dotdot"
FromWritten(e) == DotDotAt(e) > 1
ToWritten(e) == DotDotAt(e) < Len(SliceInner(e))
PrefixPlace(e) == IF Len(e) = 2 THEN APlace ELSE FieldOf(APlace, e[3].n)

\* C17: an assigns clause that is one entry ending in a slice suffix parses
\* without an error into one range: its base is the place written before the
\* bracket and its slice holds exactly the bounds that are written.
C17_SliceBoundsAsWritten ==
    (Parsing /\ parse.kind = "assigns" /\ Len(parse.entries) = 1
       /\ IsSliceEntry(parse.entries[1])) =>
        /\ ~ParseFailed
        /\ parse.status = "done" =>
              /\ Len(parse.out) = 1
              /\ parse.out[1].base = PrefixPlace(parse.entries[1])
              /\ parse.out[1].slice # None
              /\ (parse.out[1].slice[1][1] # None) = FromWritten(parse.entries[1])
              /\ (parse.out[1].slice[1][2] # None) = ToWritten(parse.entries[1])

\* The entries in which a projection follows the slice suffix.
HasSliceSuffix(e) == \E x \in 1..Len(e) : e[x].k = "bracket"
SliceNotLast(e) == \E x \in 1..(Len(e) - 1) : e[x].k = "bracket"

\* C18: the call of parse_place made at the start of an entry in which a
\* projection follows the slice suffix reports a parse error and yields no
\* range for the entry.
C18_NoRangeWhenSliceNotLast ==
    \A k \in EntryIndices :
        (Parsing /\ parse.kind = "assigns" /\ SliceNotLast(parse.entries[k])
           /\ parse.call.st # "none" /\ parse.call.from = EntryStart(k)) =>
            /\ ParseFailed
            /\ parse.call.val = None /\ ~parse.call.yielded

\* C19: in a frees clause, the call made at the start of an entry that has a
\* slice suffix makes the parse fail and yields no place, and a clause without
\* any slice suffix never fails on the ground of being a frees clause: every
\* call returns, consumes and reports what the call of an assigns clause
\* would, the place yielded being the base of that range.
C19_FreesDeniesSlices ==
    (Parsing /\ parse.kind = "frees" /\ parse.call.st # "none") =>
        /\ \A k \in EntryIndices :
              (HasSliceSuffix(parse.entries[k]) /\ parse.call.from = EntryStart(k)) =>
                  ParseFailed /\ ~parse.call.yielded
        /\ (\A k \in EntryIndices : ~HasSliceSuffix(parse.entries[k])) =>
              LET r == parse_place(TokenIter(parse.clause, parse.call.from), None) IN
              /\ parse.call.st = r.st /\ parse.call.to = r.t.pos /\ parse.call.val = r.val
              /\ parse.call.yielded = (r.st = "ret" /\ r.val # None)
              /\ parse.call.yielded => parse.out[Len(parse.out)] = r.val[1].base
              /\ ~HasDiag(ErrSubsliceDenied("frees clause"))

\* C19 witness: a frees clause whose first entry, without a slice suffix, has
\* yielded its place and whose second entry, with one, was reported and has
\* stopped the parse without a place.
C19_Witness ==
    /\ Parsing /\ parse.kind = "frees" /\ Len(parse.entries) = 2
    /\ HasSliceSuffix(parse.entries[2]) /\ parse.call.from = EntryStart(2)
    /\ HasDiag(ErrSubsliceDenied("frees clause"))
    /\ parse.status = "panic" /\ Len(parse.out) = 1

\* ---------------------------------------------------- claims on SpecContract
\* The reachable items that are instances of the checked function.
LiveInstances ==
    {x \in 1..Len(gcx.items) : gcx.items[x].k = "Fn" /\ gcx.items[x].def = wrapped_fn}

\* C20: once handle_check_contract has run, an AssignsContract exists and a
\* contract is attached only if exactly one reachable item is an instance of
\* the checked function, and then both name that instance; with no instance or
\* with several the run has aborted with nothing produced and nothing attached.
C20_ExactlyOneLiveInstance ==
    gcx.phase \in {"done", "panic"} =>
        IF Cardinality(LiveInstances) = 1
        THEN LET x == CHOOSE y \in LiveInstances : TRUE
                 name == <<gcx.items[x].def, gcx.items[x].args>>
             IN /\ gcx.phase = "done"
                /\ gcx.assigns_contract # None
                /\ gcx.assigns_contract[1].contracted_function_name = name
                /\ {c.name : c \in gcx.symbol_table} = {name}
        ELSE /\ gcx.phase = "panic"
             /\ gcx.assigns_contract = None
             /\ gcx.symbol_table = {}

\* C20 witness: the handler has aborted on a reachable set that holds two
\* instances of the checked function.
C20_Witness ==
    gcx.phase = "panic" /\ Cardinality(LiveInstances) = 2 /\ gcx.symbol_table = {}

\* -------------------------------------------- further claims on SpecExpand
NodeAt(it, x) == NodeSeq(it.body)[x]
NodeIndices(it) == 1..Len(NodeSeq(it.body))
SameNode(n, m) == n.k = m.k /\ n = m
DummyCallsIn(it) ==
    {x \in NodeIndices(it) : NodeAt(it, x).k = "call" /\ NodeAt(it, x).f[2] = "replace_dummy"}
OriginalItems == {j \in ItemIndices : items[j].ident = OriginalIdent}
RunsBodyEvent(x) == x.ev \in {"value", "mut", "ret", "residual"}

\* C28: at every stage of the expansion the replace variant holds exactly one
\* call of the replace-dummy function and no other call, holds no node of the
\* original body, and on each of its paths executes that one call and no step
\* of the original body; each layer expanded later wraps the replace body that
\* was there before.
C28_ReplaceCallsDummyOnce ==
    /\ \A i \in ItemIndices :
          function_state_of(items[i]) = "Replace" =>
              /\ Cardinality(DummyCallsIn(items[i])) = 1
              /\ \A x \in NodeIndices(items[i]) :
                    NodeAt(items[i], x).k = "call" => x \in DummyCallsIn(items[i])
              /\ \A j \in OriginalItems : \A x \in NodeIndices(items[i]), y \in NodeIndices(items[j]) :
                    ~SameNode(NodeAt(items[i], x), NodeAt(items[j], y))
              /\ \A p \in Paths(items[i].body) :
                    /\ Cardinality({x \in 1..Len(p.tr) : p.tr[x].ev = "call"}) = 1
                    /\ \A x \in 1..Len(p.tr) : ~RunsBodyEvent(p.tr[x])
    /\ last.state = "Replace" =>
          \A x \in 1..Len(last.output) :
              \E y \in NodeIndices(last.output[x]) :
                  SameNode(NodeAt(last.output[x], y), last.input.body)

\* C28 witness: a replace variant of three layers, the latest of them wrapped
\* around the replace body of the two before, next to an original whose body
\* mutates.
C28_Witness ==
    /\ last.state = "Replace"
    /\ \E i \in ItemIndices :
          /\ function_state_of(items[i]) = "Replace"
          /\ Cardinality(LayerIds(items[i].body)) = 3
          /\ Cardinality(DummyCallsIn(items[i])) = 1
    /\ \E j \in OriginalItems : \E y \in NodeIndices(items[j]) : NodeAt(items[j], y).k = "mut"

\* The steps of the original body, the step that leaves by `return` apart.
IsBodyStep(x) == x.ev \in {"value", "mut"}
\* A path that leaves through an early return or by falling through.
LeavesByReturnOrFall(p) ==
    /\ p.ex \in {"ret", "fall"}
    /\ \A x \in 1..Len(p.tr) : p.tr[x].ev # "residual"
RequiresLayers(it) ==
    {c \in GuardsOf(it, "assert") \cup GuardsOf(it, "assume") : c.kind = "requires"}
EnforcedAround(it, p) ==
    /\ \A c \in RequiresLayers(it) :
          /\ Cardinality(EventsAt(p.tr, "assume", c)) = 1
          /\ \A a \in EventsAt(p.tr, "assume", c) : \A b \in 1..Len(p.tr) :
                (IsBodyStep(p.tr[b]) \/ p.tr[b].ev = "ret") => a < b
    /\ \A c \in EnsuresLayers(it) :
          /\ Cardinality(EventsAt(p.tr, "assert", c)) = 1
          /\ \A a \in EventsAt(p.tr, "assert", c) : \A b \in 1..Len(p.tr) :
                /\ IsBodyStep(p.tr[b]) => b < a
                /\ p.tr[b].ev = "ret" => a < b

EndsInBracket(e) == e[Len(e)].k = "bracket"
ContainsDotDot(inner) == \E x \in 1..Len(inner) : inner[x].k = "dotdot"
\* `until_dot_dot.seen_dot_dot` as the slice arm reads it after the lower
\* bound is parsed.
SawDotDot(inner, deny) == parse_place(UntilDotDot_new(TokenIter(inner, 1)), deny).t.seen_dot_dot
\* The entry with `..` written at the end of its bracket.
WithOpenRange(e) ==
    SubSeq(e, 1, Len(e) - 1) \o <<Delimited("bracket", SliceInner(e) \o <<Token("dotdot")>>)>>
ClauseDeny == IF parse.kind = "frees" THEN Some("frees clause") ELSE None

\* C30: when the call for an entry that ends in a bracket has returned, the
\* parser's record of having seen `..` is true exactly when the bracket holds
\* a `..` token, and an entry whose bracket holds none (a[i]) has not the
\* value the same entry has with `..` written after the index (a[i..]).
C30_IndexIsNotOpenRange ==
    \A k \in EntryIndices :
        (/\ parse.call.from = EntryStart(k)
         /\ parse.call.st = "ret"
         /\ EndsInBracket(parse.entries[k])) =>
            /\ SawDotDot(SliceInner(parse.entries[k]), ClauseDeny)
                  = ContainsDotDot(SliceInner(parse.entries[k]))
            /\ ~ContainsDotDot(SliceInner(parse.entries[k])) =>
                  parse.call.val
                      # parse_place(TokenIter(WithOpenRange(parse.entries[k]), 1), ClauseDeny).val

\* ------------------------------------------------------- claims on SpecAttach
Attached == gcx.phase = "codegen" /\ gcx.call.st # "none"

\* C21: an attachment entered while a function is current panics at once and
\* changes neither the current function nor the symbol table; entered while
\* none is current it makes its instance current, attaches under that
\* instance's name, and when it has returned no function is current; it does
\* not return with a function current in any sequence of attachments and
\* compilations.
C21_Step ==
    Attached' =>
        /\ gcx'.call.entered_with = gcx.current_fn
        /\ gcx.current_fn # None =>
              /\ gcx'.call.st = "panic"
              /\ gcx'.current_fn = gcx.current_fn
              /\ gcx'.symbol_table = gcx.symbol_table
        /\ gcx.current_fn = None =>
              /\ gcx'.call.name = Some(symbol_name_stable(gcx'.call.instance[1]))
              /\ gcx'.call.st = "ret" =>
                    /\ gcx'.current_fn = None
                    /\ \A n \in DOMAIN gcx.symbol_table :
                          n # gcx'.call.name[1] => gcx'.symbol_table[n] = gcx.symbol_table[n]
              /\ gcx'.call.st = "panic" => gcx'.current_fn = gcx'.call.instance
        /\ gcx'.call.st = "ret" => gcx.current_fn = None
C21_AttachIsExclusive == [][C21_Step]_vars

\* C21 witness: an attachment has returned with no function current, to a
\* function that has every local attached by now, merged from more than one
\* attachment or given by one.
C21_Witness ==
    /\ Attached /\ gcx.call.st = "ret" /\ gcx.current_fn = None
    /\ gcx.symbol_table[gcx.call.name[1]] = 1..MaxLocals
\* C21 witness: an attachment was entered while a function was current.
C21_WitnessPanic == Attached /\ gcx.call.entered_with # None /\ gcx.call.st = "panic"

\* -------------------------------------------------------- claims on SpecAttrs
AttrIndices == 1..Len(sess.attrs)
InNamespace(x) ==
    /\ sess.attrs[x].kind = "Normal" /\ Len(sess.attrs[x].path) >= 2
    /\ sess.attrs[x].path[1] = "kanitool"
KnownKind(x) == InNamespace(x) /\ Len(sess.attrs[x].path) = 2 /\ sess.attrs[x].path[2] \in Kinds
Bucket(kind) == IF kind \in DOMAIN sess.map THEN sess.map[kind] ELSE <<>>
InBucket(x, kind) == \E y \in 1..Len(Bucket(kind)) : Bucket(kind)[y] = x
DiagsAt(x) == {y \in 1..Len(sess.diags) : sess.diags[y].span = x}
Names(d, word) == \E y \in 1..Len(d.parts) : d.parts[y] = word
Read == sess.phase = "attrs" /\ sess.op # "none"

\* C22: once for_item has read an item's attributes, every attribute of the
\* kanitool namespace that names a kind is in the bucket of that kind, once,
\* and in no other; every bucket is in source order and none is empty; an
\* attribute of the namespace that names no kind is reported as unknown at
\* its position and is in no bucket; an attribute outside the namespace is in
\* no bucket and nothing is reported at its position.
C22_PartitionByKind ==
    Read =>
        /\ \A x \in AttrIndices : \A kind \in Kinds :
              InBucket(x, kind) <=> (KnownKind(x) /\ sess.attrs[x].path[2] = kind)
        /\ \A kind \in DOMAIN sess.map :
              /\ kind \in Kinds /\ sess.map[kind] # <<>>
              /\ \A y, z \in 1..Len(sess.map[kind]) :
                    y < z => sess.map[kind][y] < sess.map[kind][z]
        /\ \A x \in AttrIndices :
              /\ (InNamespace(x) /\ ~KnownKind(x)) =>
                    \E y \in DiagsAt(x) : Names(sess.diags[y], "unknown attribute")
              /\ ~InNamespace(x) => DiagsAt(x) = {}
              /\ KnownKind(x) => \A y \in DiagsAt(x) : ~Names(sess.diags[y], "unknown attribute")

\* C22 witness: for_item has read an unknown attribute of the namespace, an
\* attribute outside it and, or, a known one.
C22_Witness ==
    /\ Read /\ sess.op = "for_item" /\ Len(sess.attrs) = MaxAttrs
    /\ \E x \in AttrIndices : InNamespace(x) /\ ~KnownKind(x)
    /\ \E x \in AttrIndices : ~InNamespace(x) \/ KnownKind(x)

SingletonKinds ==
    {"solver", "unwind", "should_panic", "proof", "proof_for_contract", "checked_with",
     "replaced_with", "memory_havoc_dummy"}
Checked == sess.phase = "attrs" /\ sess.op = "check_attributes"
CountOf(kind) == Cardinality({x \in AttrIndices : KnownKind(x) /\ sess.attrs[x].path[2] = kind})
TooManyReported(kind) ==
    \E y \in 1..Len(sess.diags) :
        /\ Names(sess.diags[y], kind)
        /\ Names(sess.diags[y], "Too many") \/ Names(sess.diags[y], "only one #[kani::")

\* C23: when an item's attributes have been checked, for every singleton kind
\* the item carries more than once an error is reported that names the kind
\* and the item; for a kind it carries once or not at all no such error is
\* reported.
C23_SingletonKinds ==
    Checked =>
        \A kind \in SingletonKinds :
            IF CountOf(kind) > 1
            THEN \E y \in 1..Len(sess.diags) :
                    Names(sess.diags[y], kind) /\ Names(sess.diags[y], sess.item)
            ELSE ~TooManyReported(kind)

\* An attribute with the wrong number or form of arguments for its kind.
Malformed(x) ==
    /\ KnownKind(x)
    /\ LET kind == sess.attrs[x].path[2]
           form == sess.attrs[x].form
           args == sess.attrs[x].args
       IN CASE kind \in {"proof", "should_panic"} -> form # "word"
            [] kind \in {"solver", "unwind"} -> form # "list" \/ Len(args) # 1
            [] kind = "stub" -> form # "list" \/ Len(args) # 2
            [] kind \in {"checked_with", "replaced_with", "memory_havoc_dummy",
                         "proof_for_contract", "stub_verified"} -> form # "eq"
            [] OTHER -> FALSE

\* C24: when an item's attributes have been checked, the check has gone
\* through all of them without ending the session, and every malformed
\* attribute of the kinds the check reads has an error at its position.
C24_MalformedReportedAndSkipped ==
    Checked =>
        /\ sess.st = "ret"
        /\ \A x \in AttrIndices :
              (Malformed(x) /\ sess.attrs[x].path[2] \notin {"proof_for_contract", "stub_verified"})
                  => DiagsAt(x) # {}

HarnessRead == sess.phase = "attrs" /\ sess.op = "harness_attributes"
\* The value of the marker of the kind on the target, None when the target
\* has no such marker.
MarkerOn(target, kind) ==
    LET at == {x \in 1..Len(CrateAttrs(target)) :
                  CrateAttrs(target)[x].path = <<"kanitool", kind>>}
    IN IF at = {} THEN None ELSE Some(CrateAttrs(target)[CHOOSE x \in at : TRUE].args[1].v)
TargetAt(x) == sess.attrs[x].args[1].v
\* The stub the attribute at x is to give, as a sequence of none or one.
ExpectedStub(x) ==
    LET kind == sess.attrs[x].path[2]
        marker == MarkerOn(TargetAt(x), IF kind = "proof_for_contract" THEN "checked_with"
                                         ELSE "replaced_with")
    IN IF kind = "stub"
       THEN <<Stub(sess.attrs[x].args[1].v, sess.attrs[x].args[2].v)>>
       ELSE IF marker = None \/ TargetAt(x) \notin Resolvable THEN <<>>
       ELSE <<Stub(TargetAt(x), SubSeq(TargetAt(x), 1, Len(TargetAt(x)) - 1) \o marker[1])>>
ExpectedStubs ==
    Concat([x \in 1..Len(Bucket("stub")) |-> ExpectedStub(Bucket("stub")[x])])
    \o Concat([x \in 1..Len(Bucket("proof_for_contract")) |->
                  ExpectedStub(Bucket("proof_for_contract")[x])])
    \o Concat([x \in 1..Len(Bucket("stub_verified")) |->
                  ExpectedStub(Bucket("stub_verified")[x])])

\* C25: harness_attributes of a checked harness that carries harness
\* attributes only returns, and its stubs are those of the stub attributes,
\* then for proof_for_contract(T) the one stub that replaces T by the path of
\* T with its last segment replaced by the name in T's checked_with marker,
\* then for each stub_verified(U), in order, the stub that replaces U by the
\* like path with the name in U's replaced_with marker; a target without the
\* marker gets no stub and an error at the attribute that names it.
C25_ContractStubs ==
    HarnessRead =>
        /\ (\A kind \in DOMAIN sess.map : is_harness_only(kind)) =>
              sess.st = "ret" /\ sess.stubs = ExpectedStubs
        /\ sess.st = "ret" =>
              \A x \in AttrIndices :
                  (/\ KnownKind(x)
                   /\ sess.attrs[x].path[2] \in {"proof_for_contract", "stub_verified"}
                   /\ TargetAt(x) \in Resolvable
                   /\ ExpectedStub(x) = <<>>) =>
                      /\ \E y \in DiagsAt(x) : TRUE
                      /\ \A y \in 1..Len(sess.stubs) : sess.stubs[y].original # TargetAt(x)

\* C25 witness: a harness for the contract of m::T that uses the contract of
\* U has got its two stubs.
C25_Witness ==
    /\ HarnessRead /\ sess.st = "ret"
    /\ sess.stubs = <<Stub(<<"m", "T">>, <<"m", "T_recursion_wrapper">>),
                      Stub(<<"U">>, <<"U_replace">>)>>
\* C25 witness: the target of the harness has no contract.
C25_WitnessNoContract ==
    /\ HarnessRead /\ sess.st = "ret" /\ sess.stubs = <<>> /\ sess.diags # <<>>
    /\ \E x \in AttrIndices : KnownKind(x) /\ sess.attrs[x].path[2] = "proof_for_contract"

ContractApiKinds ==
    {"checked_with", "replaced_with", "is_contract_generated", "assigns", "frees",
     "stub_verified", "proof_for_contract"}
FeaturesChecked == sess.phase = "attrs" /\ sess.op = "check_unstable_features"

\* C26: when the unstable features of a function have been checked without
\* function-contracts enabled, a function that carries an attribute of the
\* function-contracts API has an error that says the attribute requires
\* activating the feature.
C26_ContractsNeedFeature ==
    (FeaturesChecked /\ "function-contracts" \notin sess.features) =>
        ((\E x \in AttrIndices : KnownKind(x) /\ sess.attrs[x].path[2] \in ContractApiKinds)
            => \E y \in 1..Len(sess.diags) :
                  Names(sess.diags[y],
                        "attribute requires activating the unstable function-contracts feature"))

\* ---------------------------------------------------- claims on SpecInstrument
RunIndices == 1..Len(driver.runs)
HasArg(run, arg) == \E y \in 1..Len(run.args) : run.args[y] = arg
IsSanityCheck(run) == run.tool = "goto-instrument" /\ HasArg(run, "--validate-goto-model")
\* A run of goto-instrument that writes the goto binary it has read.
IsTransformation(run) ==
    /\ run.tool = "goto-instrument" /\ run.input = run.output
    /\ ~IsSanityCheck(run)
IsContractRun(run) ==
    HasArg(run, "--enforce-contract") \/ HasArg(run, "--replace-call-with-contract")
IsDropUnused(run) == HasArg(run, "--drop-unused-functions")
IsBackEdges(run) == HasArg(run, "--ensure-one-backedge-per-target")
Before(P(_), Q(_)) ==
    \A y, z \in RunIndices : (P(driver.runs[y]) /\ Q(driver.runs[z])) => y < z
Instrumenting == driver.phase = "instrument"

\* The sanity check, when enabled, has run before every transformation of
\* the model by goto-instrument.
SanityCheckFirst ==
    (Instrumenting /\ driver.args.run_sanity_checks) =>
        \A y \in RunIndices :
            IsTransformation(driver.runs[y]) =>
                \E z \in RunIndices : z < y /\ IsSanityCheck(driver.runs[z])
\* Contracts are instrumented before unused functions are dropped, and
\* these before back edges are rewritten; back edges are rewritten only
\* after unused functions were dropped.
ContractsDropBackEdges ==
    Instrumenting =>
        /\ Before(IsContractRun, IsDropUnused)
        /\ Before(IsDropUnused, IsBackEdges)
        /\ Before(IsContractRun, IsBackEdges)
        /\ \A z \in RunIndices :
              IsBackEdges(driver.runs[z]) =>
                  \E y \in RunIndices : y < z /\ IsDropUnused(driver.runs[y])

\* C27: in instrument_model, when sanity checks are enabled the sanity check
\* of the goto model has run before any transformation by goto-instrument is
\* applied to the model; and contract instrumentation runs before unused
\* functions are dropped, which runs before back edges are rewritten.
C27_InstrumentOrder == SanityCheckFirst /\ ContractsDropBackEdges

====
